---- MODULE Spec2Model ----
(***************************************************************************)
(* Authentication and session lifecycle of the Inkwell backend.            *)
(*                                                                         *)
(* The repository holds one user model (backend/models/user.js) and three  *)
(* variants of the auth handlers:                                          *)
(*   AC_*  backend/controllers/authController.js  (signed, stateless       *)
(*         refresh tokens; logout is a no-op)                              *)
(*   P0_*  unnamed/part_000, "controllers/authController.js" (opaque       *)
(*         random refresh tokens kept in user.refreshTokens)               *)
(*   P1_*  unnamed/part_001, the express router (signed refresh tokens     *)
(*         kept in user.refreshTokens as {token})                          *)
(*                                                                         *)
(* Time is counted in ticks of five minutes; Date.now() is `now`, and the  *)
(* iat/exp of a signed token are clock readings in the same unit.          *)
(* A handler is a chain of steps, one per store round trip (await          *)
(* User.findOne / await user.save()).  The synchronous code between two    *)
(* awaits works on the loaded document alone and is folded into the        *)
(* neighbouring step.  Requests run in slots, so two handlers may          *)
(* interleave at their awaits.                                             *)
(***************************************************************************)
EXTENDS Integers, Sequences, FiniteSets, TLC

VARIABLES db, now, env, req, resp, issued, rotated, revoked, streak, nonce

vars == <<db, now, env, req, resp, issued, rotated, revoked, streak, nonce>>

(* ------------------------------ bounds --------------------------------- *)
MaxTime == 3
MaxLockTime == 8
MaxUsers == 2
MaxReq == 2
MaxIssued == 2
MaxNonce == 2
MaxAttempts == 7
MaxLifeTime == 4

(* ------------------------- program constants --------------------------- *)
OTP_TTL == 2
LOCK_TIME == 6
ACCESS_TTL == 3
REFRESH_TTL == 2016
MAX_ATTEMPTS == 5
MIN_PASSWORD == 8

\* null of a hash field, null of a Date field, undefined
Null == <<>>
NullDate == -1
Undefined == "undefined"
Slots == 1..MaxReq

(* ------------------------------ inputs --------------------------------- *)
Emails == {"ada@x.com", "bob@x.com"}
\* emails presented to signup: two that differ in letter case only
SignupEmails == {"ada@x.com", "Ada@x.com", "bob@x.com"}
FullNames == {"Ada"}
OtpCodes == {"123456", "654321"}
\* "Abcdef1!", "Str0ng!Pw", "Abcdef1_" and "abc"
PwAbcdef1 == <<"A", "b", "c", "d", "e", "f", "1", "!">>
PwStr0ng == <<"S", "t", "r", "0", "n", "g", "!", "P", "w">>
PwUnderscore == <<"A", "b", "c", "d", "e", "f", "1", "_">>
PwWeak == <<"a", "b", "c">>
Passwords == {PwAbcdef1, PwStr0ng}
Malformed == [typ |-> "malformed", id |-> 0, key |-> "none", iat |-> 0, exp |-> 0, n |-> 0]

(* --------------------------- character classes ------------------------- *)
LowerChars == {"a", "b", "c", "d", "e", "f", "g", "n", "r", "t", "w"}
UpperChars == {"A", "P", "S"}
DigitChars == {"0", "1"}
WordChars == LowerChars \cup UpperChars \cup DigitChars \cup {"_"}
ModelSymbols == {"@", "$", "!", "%", "*", "?", "#", "&"}

HasChar(pwd, S) == \E i \in 1..Len(pwd) : pwd[i] \in S

\* /^(?=.*[a-z])(?=.*[A-Z])(?=.*\d)(?=.*[\W_]).{8,}$/
isStrongPassword(pwd) ==
    /\ HasChar(pwd, LowerChars)
    /\ HasChar(pwd, UpperChars)
    /\ HasChar(pwd, DigitChars)
    /\ \E i \in 1..Len(pwd) : pwd[i] \notin WordChars \/ pwd[i] = "_"
    /\ Len(pwd) >= MIN_PASSWORD

\* /^(?=.*[a-z])(?=.*[A-Z])(?=.*\d)(?=.*[@$!%*?#&])[A-Za-z\d@$!%*?#&]{8,}$/
PASSWORD_REGEX(pwd) ==
    /\ HasChar(pwd, LowerChars)
    /\ HasChar(pwd, UpperChars)
    /\ HasChar(pwd, DigitChars)
    /\ HasChar(pwd, ModelSymbols)
    /\ \A i \in 1..Len(pwd) :
          pwd[i] \in LowerChars \cup UpperChars \cup DigitChars \cup ModelSymbols
    /\ Len(pwd) >= MIN_PASSWORD

(* ------------------------------ hashing -------------------------------- *)
\* a pre-save hook that stores the password as it came
storePlain(pwd) == pwd

\* bcrypt.hash(password, salt) and bcrypt.compare(entered, hash)
bcryptHash(pwd) == <<"bcrypt", pwd>>
matchPassword(doc, enteredPassword) == doc.password = bcryptHash(enteredPassword)
\* crypto.createHash('sha256').update(otp).digest('hex')
sha256(otp) == <<"sha256", otp>>

(* ------------------------------ the store ------------------------------ *)
\* String.prototype.toLowerCase on the emails of the model
LowerCase(e) == IF e = "Ada@x.com" THEN "ada@x.com" ELSE e

\* an email path without the lowercase setter
KeepCase(e) == e

\* schema setter of the email path: lowercase: true, trim: true
Canon(e) == LowerCase(e)

\* some account has the email, letter case ignored
Collides(email) == \E i \in 1..Len(db) : LowerCase(db[i].email) = LowerCase(email)

Ids == 1..Len(db)

\* new User({ fullName, email, password }) with the schema defaults
NewUser(fullName, email, password) ==
    [fullName |-> fullName, email |-> Canon(email), password |-> password,
     otpHash |-> Null, otpExpires |-> NullDate, loginAttempts |-> 0, lockUntil |-> NullDate]

\* the paths the schema declares: save() persists these and no others
SchemaPaths == {"fullName", "email", "password", "otpHash", "otpExpires",
                "loginAttempts", "lockUntil"}

\* User.findOne({ email }): the id of the first match, 0 for null
findOneByEmail(email) ==
    IF \E i \in Ids : db[i].email = Canon(email)
    THEN CHOOSE i \in Ids : db[i].email = Canon(email) /\ \A j \in 1..(i-1) : db[j].email # Canon(email)
    ELSE 0

\* User.findById(id)
findById(id) == IF id \in Ids THEN id ELSE 0

\* User.findOne({ refreshTokens: token }): refreshTokens is no path of the
\* schema.  With strictQuery on the condition is dropped and the first
\* document of the collection is returned; with strictQuery off the condition
\* reaches the store, where no document has the field.
findOneByRefreshToken(token) ==
    IF env.strictQuery /\ Len(db) > 0 THEN 1 ELSE 0

\* a loaded document: the stored fields, the paths modified since loading and
\* the ad-hoc property refreshTokens (undefined on a freshly loaded document)
NoArray == [defined |-> FALSE, items |-> <<>>]
Load(id) == [id |-> id, f |-> db[id], mod |-> {}, refreshTokens |-> NoArray]
NoDoc == [id |-> 0, f |-> NewUser("", "", <<>>), mod |-> {}, refreshTokens |-> NoArray]

\* an assignment to a schema path of a loaded document: Mongoose marks the
\* path as modified unless the value is the one the document already has
SetPath(doc, path, val) ==
    [doc EXCEPT !.f = [doc.f EXCEPT ![path] = val],
                !.mod = IF doc.f[path] = val THEN doc.mod ELSE doc.mod \cup {path}]

\* the assignment of Date.now() + span to a Date path: the clock has moved on
\* since the loaded value was computed, so the path is modified
SetDate(doc, path, val) ==
    [doc EXCEPT !.f = [doc.f EXCEPT ![path] = val], !.mod = doc.mod \cup {path}]

\* user.save() of a loaded document: $set of the modified schema paths
SaveInto(store, doc) ==
    [store EXCEPT ![doc.id] =
        [p \in SchemaPaths |-> IF p \in doc.mod THEN doc.f[p] ELSE store[doc.id][p]]]

\* the refresh tokens the store holds for an account: the elements of the
\* stored refreshTokens array, none when the document has no such field
PersistedRefreshTokens(id) ==
    IF "refreshTokens" \in DOMAIN db[id]
    THEN {db[id].refreshTokens[k] : k \in 1..Len(db[id].refreshTokens)}
    ELSE {}

\* every refresh token the store holds, for any account
AllPersisted == UNION {PersistedRefreshTokens(id) : id \in Ids}

(* ------------------------------- tokens -------------------------------- *)
JWT_SECRET == "JWT_SECRET"
\* process.env.JWT_REFRESH_SECRET, undefined when not configured; a deployment
\* may give it the value of JWT_SECRET
EnvRefreshSecret ==
    IF ~env.refreshSecret THEN Undefined
    ELSE IF env.sameSecret THEN JWT_SECRET ELSE "JWT_REFRESH_SECRET"

\* process.env.JWT_EXPIRES_IN || '15m' and process.env.JWT_REFRESH_EXPIRES_IN || '7d',
\* in ticks; 0 stands for a variable that is not set
JWT_EXPIRES_IN == IF env.expiresIn = 0 THEN ACCESS_TTL ELSE env.expiresIn
JWT_REFRESH_EXPIRES_IN == IF env.refreshExpiresIn = 0 THEN REFRESH_TTL ELSE env.refreshExpiresIn

\* the lifetimes a deployment may configure: none, or '1h' and '14d'
ExpiresInValues == {0, 4 * ACCESS_TTL}
RefreshExpiresInValues == {0, 2 * REFRESH_TTL}

\* the deployment sets neither lifetime and gives the two secrets two values
DefaultConfig == env.expiresIn = 0 /\ env.refreshExpiresIn = 0 /\ ~env.sameSecret

\* jwt.sign({ id }, secret, { expiresIn }): iat is the clock reading
jwtSign(id, secret, ttl) ==
    [typ |-> "jwt", id |-> id, key |-> secret, iat |-> now, exp |-> now + ttl, n |-> 0]

\* jwt.decode: the payload is read, nothing is verified
jwtDecode(token, secret) == token.typ = "jwt"

\* a verification that also refuses the tokens of a session whose refresh
\* token was rotated or logged out
jwtVerifyRevocable(token, secret) ==
    /\ secret # Undefined
    /\ token.typ = "jwt"
    /\ token.key = secret
    /\ now < token.exp
    /\ \A t \in rotated \cup revoked : t.id # token.id \/ t.iat # token.iat

\* jwt.verify(token, secret, { ignoreExpiration: true })
jwtVerifyIgnoreExpiration(token, secret) ==
    /\ secret # Undefined
    /\ token.typ = "jwt"
    /\ token.key = secret

\* jwt.verify(token, secret) does not throw
jwtVerify(token, secret) ==
    /\ secret # Undefined
    /\ token.typ = "jwt"
    /\ token.key = secret
    /\ now < token.exp

NoToken == [typ |-> "none", id |-> 0, key |-> "none", iat |-> 0, exp |-> 0, n |-> 0]

(* --------------------------- requests, replies ------------------------- *)
\* what the stored OTP fields say of a presented code at the time of the read:
\* used = no OTP is pending, matched = the code is the pending one,
\* expired = the pending OTP's otpExpires lies before the clock
OtpCheck(f, otp) ==
    [used |-> f.otpHash = Null,
     matched |-> sha256(otp) = f.otpHash,
     expired |-> f.otpExpires # NullDate /\ f.otpExpires < now]
NoCheck == [used |-> FALSE, matched |-> FALSE, expired |-> FALSE]

IdleReq ==
    [op |-> "idle", pc |-> "idle", fullName |-> "", email |-> "", password |-> <<>>,
     otp |-> "", token |-> NoToken, doc |-> NoDoc, wasValid |-> FALSE, paired |-> "",
     pairedOp |-> "", pairedOtp |-> "", chk |-> NoCheck]

\* resp is the answer sent by the step just taken, NoResp when it sent none.
\* Its flags record what was true of the request:
\*   replay       the presented token had been rotated by an earlier refresh
\*   afterLogout  the presented token had been logged out
\*   wasValid     the presented token was issued and neither rotated nor
\*                logged out when the call began
\*   member       the presented token was in some account's stored
\*                refreshTokens when the store was asked
\*   paired       the kind of the answer that another call (a refresh of the
\*                same token, a login or verifyOtp of the same account) got
\*                while this one was under way, "" when there was none
\*   locked       the account had five wrong passwords in a row, the fifth
\*                less than 30 minutes ago
\*   fresh        the returned refresh token had not been returned before
\*   changed      the step changed the store
\*   otp          the code presented (verifyOtp, resetPassword) or issued
\*   password     the password presented
\*   chk          what the store said of the presented code when it was read
\*   pairedOp     the operation of the call that `paired` is about
\*   pairedOtp    the code that call presented
\*   cause        why the call failed, "" when it is not told apart
\*   stored       the password hash on the document a login loaded
\*   collided     an account with the email of the signup (letter case ignored)
\*                existed when the call began
\*   attached     the paths of the document that authenticate put on req.user
\*   body         the user object of the JSON body of /profile
\*   email        the email presented to signup
\*   reads        the store operations (findOne, save) the signup had asked for
\*                when it answered
\*   logged       the plaintext codes that the step wrote with console.log
NoResp ==
    [op |-> "none", status |-> 0, msg |-> "", uid |-> 0,
     accessToken |-> NoToken, refreshToken |-> NoToken, presented |-> NoToken,
     replay |-> FALSE, afterLogout |-> FALSE, wasValid |-> FALSE, member |-> FALSE,
     paired |-> "", locked |-> FALSE, fresh |-> FALSE, changed |-> FALSE,
     otp |-> "", password |-> <<>>, chk |-> NoCheck, pairedOp |-> "", pairedOtp |-> "",
     cause |-> "", stored |-> <<>>, collided |-> FALSE, attached |-> {}, body |-> <<>>,
     email |-> "", reads |-> 0, logged |-> {}]

(* ------------------------- the failure kinds --------------------------- *)
\* the failure kind of the specification that an answer stands for
Kind(r) ==
    CASE r.status \in {200, 201} -> "ok"
      [] r.status = 500 -> "InternalFailure"
      [] r.msg \in {"Invalid refresh token", "Invalid or expired refresh token"} -> "InvalidRefreshToken"
      [] r.msg = "Invalid credentials" -> "InvalidCredentials"
      [] r.msg \in {"Invalid or expired OTP", "Incorrect OTP"} -> "InvalidOrExpiredOtp"
      [] r.msg \in {"Password weak", "Password weak. Follow policy.",
                    "Password weak. Must follow policy."} -> "WeakPassword"
      [] r.msg = "Email already registered" -> "DuplicateEmail"
      [] r.msg \in {"User not found", "No user with this email"} -> "NotFound"
      [] OTHER -> "ValidationError"

Reply(op, status, msg) ==
    [NoResp EXCEPT !.op = op, !.status = status, !.msg = msg]

Idle(s) == req[s].op = "idle"
\* a new request takes the lowest idle slot (slots are interchangeable)
Free(s) == Idle(s) /\ \A t \in 1..(s-1) : ~Idle(t)

IssuedTokens == {i.tok : i \in issued}
\* issued to a client and neither rotated nor logged out since
Valid(token) == token \in IssuedTokens /\ token \notin rotated \cup revoked
\* the refresh tokens a client holds and may present, and a malformed one
Presentable == IssuedTokens \cup {Malformed}

Init ==
    /\ db = <<>>
    /\ now = 0
    /\ env \in [refreshSecret : BOOLEAN, strictQuery : BOOLEAN, sameSecret : BOOLEAN,
                 expiresIn : ExpiresInValues, refreshExpiresIn : RefreshExpiresInValues]
    /\ req = [s \in Slots |-> IdleReq]
    /\ resp = NoResp
    /\ issued = {}
    /\ rotated = {}
    /\ revoked = {}
    /\ streak = [i \in 1..MaxUsers |-> [n |-> 0, at |-> 0]]
    /\ nonce = 0

\* the clock advances
TickTo(max) ==
    /\ now < max
    /\ now' = now + 1
    /\ resp' = NoResp
    /\ UNCHANGED <<db, env, req, issued, rotated, revoked, streak, nonce>>

Tick == TickTo(MaxTime)

(* --------------------------- shared step parts ------------------------- *)
\* the slot answers and becomes idle
Respond(s, r) ==
    /\ resp' = r
    /\ req' = [req EXCEPT ![s] = IdleReq]

\* the slot answers and becomes idle; the calls under way in the slots T learn
\* that a call of their pair has been answered
RespondPairing(s, r, T) ==
    /\ resp' = r
    /\ req' = [t \in Slots |->
                 IF t = s THEN IdleReq
                 ELSE IF t \in T THEN [req[t] EXCEPT !.paired = Kind(r), !.pairedOp = r.op,
                                                   !.pairedOtp = r.otp]
                 ELSE req[t]]

\* the slot goes on to its next store round trip
Continue(s, r) ==
    /\ resp' = NoResp
    /\ req' = [req EXCEPT ![s] = r]

\* room for one more document, counting the inserts already under way
RoomToInsert ==
    Len(db) + Cardinality({t \in Slots : req[t].pc = "insert"}) < MaxUsers

\* room for one more issued refresh token, counting the issues under way
RoomToIssue ==
    Cardinality(issued) + Cardinality({t \in Slots : req[t].pc = "issue"}) < MaxIssued

\* the unique index on email admits the document
UniqueEmail(email) == \A i \in Ids : db[i].email # Canon(email)

\* the characters of the emails of the model
EmailText(e) ==
    CASE e = "ada@x.com" -> <<"a", "d", "a", "@", "x", ".", "c", "o", "m">>
      [] e = "Ada@x.com" -> <<"A", "d", "a", "@", "x", ".", "c", "o", "m">>
      [] e = "bob@x.com" -> <<"b", "o", "b", "@", "x", ".", "c", "o", "m">>
      [] e = "ada" -> <<"a", "d", "a">>
      [] OTHER -> <<>>

\* /^[^\s@]+@[^\s@]+\.[^\s@]+$/
EMAIL_REGEX(e) ==
    LET t == EmailText(e) IN
    \E i, j \in 1..Len(t) :
        /\ 1 < i /\ i + 1 < j /\ j < Len(t)
        /\ t[i] = "@" /\ t[j] = "."
        /\ \A k \in 1..Len(t) \ {i} : t[k] \notin {"@", " "}

\* the schema validators of a new document: the email must match EMAIL_REGEX;
\* the password validator (minlength 8 and PASSWORD_REGEX) runs on the
\* plaintext, before the pre-save hook
ValidNewUser(fullName, email, password) ==
    /\ EMAIL_REGEX(email)
    /\ Len(password) >= MIN_PASSWORD
    /\ PASSWORD_REGEX(password)

\* an OTP check that does not look at the clock
OtpRejectedNoExpiry(f, otp) == f.otpHash = Null \/ sha256(otp) # f.otpHash

\* an OTP check that does not compare the code
OtpRejectedNoHash(f, otp) == f.otpHash = Null \/ f.otpExpires < now

\* the OTP check shared by verifyOtp and resetPassword:
\* !user.otpHash || hashedOtp !== user.otpHash || user.otpExpires < Date.now()
OtpRejected(f, otp) ==
    \/ f.otpHash = Null
    \/ sha256(otp) # f.otpHash
    \/ f.otpExpires < now

\* a document whose OTP fields are left as they were
KeepOtp(doc) == doc

\* user.otpHash = null; user.otpExpires = null
ClearOtp(doc) == SetPath(SetPath(doc, "otpHash", Null), "otpExpires", NullDate)

\* an answer of verifyOtp or resetPassword about a presented code
OtpReply(op, id, otp, status, msg) ==
    [Reply(op, status, msg) EXCEPT !.uid = id, !.otp = otp, !.chk = OtpCheck(db[id], otp)]

\* a resetPassword of the account is between its findOne and its save
ConsumingOtp(id, t) == req[t].pc = "reset" /\ req[t].doc.id = id

\* the consecutive wrong-password logins of an account, capped at the threshold
CountFailure(id) ==
    [streak EXCEPT ![id] =
        IF streak[id].n + 1 >= MAX_ATTEMPTS
        THEN [n |-> MAX_ATTEMPTS, at |-> IF streak[id].n >= MAX_ATTEMPTS THEN streak[id].at ELSE now]
        ELSE [n |-> streak[id].n + 1, at |-> 0]]
CountSuccess(id) == [streak EXCEPT ![id] = [n |-> 0, at |-> 0]]

\* five wrong passwords in a row, the fifth less than 30 minutes ago
LockedBySpec(id) == streak[id].n >= MAX_ATTEMPTS /\ now < streak[id].at + LOCK_TIME

\* a refresh or logout answer about a presented token
TokenReply(op, token) ==
    [NoResp EXCEPT !.op = op, !.presented = token,
       !.replay = token \in rotated, !.afterLogout = token \in revoked,
       !.wasValid = Valid(token), !.member = token \in AllPersisted]

\* an answer that carries a token pair
PairReply(r, accessToken, refreshToken) ==
    [r EXCEPT !.accessToken = accessToken, !.refreshToken = refreshToken,
              !.fresh = refreshToken \notin IssuedTokens]

\* a login or verifyOtp of the account is under way in the slot
IssuingFor(id, t) == req[t].pc = "issue" /\ req[t].doc.id = id

\* a login answer about an account
LoginReply(id, status, msg) ==
    [Reply("login", status, msg) EXCEPT !.uid = id, !.locked = LockedBySpec(id)]

(* ------------- backend/controllers/authController.js (AC) -------------- *)
signAccessToken(id) == jwtSign(id, JWT_SECRET, JWT_EXPIRES_IN)
AC_signRefreshToken(id) == jwtSign(id, EnvRefreshSecret, JWT_REFRESH_EXPIRES_IN)

\* exports.signup up to the first save: field check, password policy, findOne
AC_signup(s, fullName, email, password) ==
    /\ Free(s)
    /\ RoomToInsert
    /\ UNCHANGED <<db, now, env, issued, rotated, revoked, streak, nonce>>
    /\ IF fullName = "" \/ email = "" \/ password = <<>>
       THEN Respond(s, Reply("signup", 400, "Full name, email, and password are required"))
       ELSE IF ~isStrongPassword(password)
       THEN Respond(s, Reply("signup", 400, "Password weak"))
       ELSE IF findOneByEmail(email) # 0
       THEN Respond(s, Reply("signup", 400, "Email already registered"))
       ELSE Continue(s, [IdleReq EXCEPT !.op = "signup", !.pc = "insert",
                           !.fullName = fullName, !.email = email, !.password = password])

\* await user.save() of the new document (line 35)
AC_signup_insert(s) ==
    /\ req[s].op = "signup" /\ req[s].pc = "insert"
    /\ UNCHANGED <<now, env, issued, rotated, revoked, streak, nonce>>
    /\ LET r == req[s] IN
       IF ~ValidNewUser(r.fullName, r.email, r.password) \/ ~UniqueEmail(r.email)
       THEN /\ Respond(s, Reply("signup", 500, "Server error during signup"))
            /\ UNCHANGED db
       ELSE /\ db' = Append(db, [NewUser(r.fullName, r.email, r.password)
                                   EXCEPT !.password = bcryptHash(r.password)])
            /\ Continue(s, [IdleReq EXCEPT !.op = "signup", !.pc = "otp",
                              !.doc = [NoDoc EXCEPT !.id = Len(db) + 1]])

\* the OTP is generated, hashed and saved (lines 38-46)
AC_signup_otp(s, otp) ==
    /\ req[s].op = "signup" /\ req[s].pc = "otp"
    /\ UNCHANGED <<now, env, issued, rotated, revoked, streak, nonce>>
    /\ LET id == req[s].doc.id
           doc == SetDate(SetPath(Load(id), "otpHash", sha256(otp)), "otpExpires", now + OTP_TTL)
       IN /\ db' = SaveInto(db, doc)
          /\ Respond(s, [Reply("signup", 201, "User created. Verify OTP sent to email.")
                           EXCEPT !.uid = id, !.otp = otp, !.logged = {otp}])

\* exports.verifyOtp up to the save: field check, findOne, OTP check
AC_verifyOtp(s, email, otp) ==
    /\ Free(s)
    /\ UNCHANGED <<db, now, env, issued, rotated, revoked, streak, nonce>>
    /\ LET id == findOneByEmail(email) IN
       IF email = "" \/ otp = ""
       THEN Respond(s, Reply("verifyOtp", 400, "Email and OTP required"))
       ELSE IF id = 0
       THEN Respond(s, Reply("verifyOtp", 404, "User not found"))
       ELSE IF OtpRejected(db[id], otp)
       THEN Respond(s, OtpReply("verifyOtp", id, otp, 400, "Invalid or expired OTP"))
       ELSE /\ RoomToIssue
            /\ Continue(s, [IdleReq EXCEPT !.op = "verifyOtp", !.pc = "issue",
                             !.otp = otp, !.chk = OtpCheck(db[id], otp),
                             !.doc = ClearOtp(Load(id))])

\* the cleared OTP is saved and the two tokens are signed (lines 69-74)
AC_verifyOtp_save(s) ==
    /\ req[s].op = "verifyOtp" /\ req[s].pc = "issue"
    /\ UNCHANGED <<now, env, rotated, revoked, streak, nonce>>
    /\ LET id == req[s].doc.id IN
       /\ db' = SaveInto(db, req[s].doc)
       /\ IF EnvRefreshSecret = Undefined
          THEN /\ Respond(s, [Reply("verifyOtp", 500, "Server error verifying OTP") EXCEPT
                                  !.uid = id, !.otp = req[s].otp, !.chk = req[s].chk])
               /\ UNCHANGED issued
          ELSE /\ Respond(s, PairReply([Reply("verifyOtp", 200, "") EXCEPT
                                            !.uid = id, !.otp = req[s].otp, !.chk = req[s].chk],
                                         signAccessToken(id), AC_signRefreshToken(id)))
               /\ issued' = issued \cup {[tok |-> AC_signRefreshToken(id), uid |-> id]}

\* exports.login: field check, findOne, matchPassword, the two tokens
AC_login(s, email, password) ==
    /\ Free(s)
    /\ UNCHANGED <<db, now, env, rotated, revoked, nonce, req>>
    /\ LET id == findOneByEmail(email) IN
       IF email = "" \/ password = <<>>
       THEN /\ resp' = Reply("login", 400, "Email and password required")
            /\ UNCHANGED <<issued, streak>>
       ELSE IF id = 0
       THEN /\ resp' = Reply("login", 401, "Invalid credentials")
            /\ UNCHANGED <<issued, streak>>
       ELSE IF ~matchPassword(db[id], password)
       THEN /\ resp' = LoginReply(id, 401, "Invalid credentials")
            /\ streak' = CountFailure(id)
            /\ UNCHANGED issued
       ELSE IF EnvRefreshSecret = Undefined
       THEN /\ resp' = LoginReply(id, 500, "Server error during login")
            /\ UNCHANGED <<issued, streak>>
       ELSE /\ Cardinality(issued \cup {[tok |-> AC_signRefreshToken(id), uid |-> id]}) <= MaxIssued
            /\ resp' = PairReply(LoginReply(id, 200, ""),
                                  signAccessToken(id), AC_signRefreshToken(id))
            /\ issued' = issued \cup {[tok |-> AC_signRefreshToken(id), uid |-> id]}
            /\ streak' = CountSuccess(id)

\* exports.refresh: jwt.verify, findById, two new tokens; nothing is stored
AC_refresh(s, token) ==
    /\ Free(s)
    /\ UNCHANGED <<db, now, env, revoked, streak, nonce, req>>
    /\ LET id == findById(token.id)
           base == TokenReply("refresh", token)
       IN
       IF token = NoToken
       THEN /\ resp' = [base EXCEPT !.status = 400, !.msg = "Refresh token required"]
            /\ UNCHANGED <<issued, rotated>>
       ELSE IF ~jwtVerify(token, EnvRefreshSecret)
       THEN /\ resp' = [base EXCEPT !.status = 401, !.msg = "Invalid refresh token"]
            /\ UNCHANGED <<issued, rotated>>
       ELSE IF id = 0
       THEN /\ resp' = [base EXCEPT !.status = 401, !.msg = "User not found"]
            /\ UNCHANGED <<issued, rotated>>
       ELSE /\ Cardinality(issued \cup {[tok |-> AC_signRefreshToken(id), uid |-> id]}) <= MaxIssued
            /\ resp' = PairReply([base EXCEPT !.status = 200, !.uid = id],
                                  signAccessToken(id), AC_signRefreshToken(id))
            /\ issued' = issued \cup {[tok |-> AC_signRefreshToken(id), uid |-> id]}
            /\ rotated' = rotated \cup {token}

\* exports.logout: answers 200 whatever the body holds; nothing is read or stored
AC_logout(s, token) ==
    /\ Free(s)
    /\ UNCHANGED <<db, now, env, issued, rotated, streak, nonce, req>>
    /\ resp' = [TokenReply("logout", token) EXCEPT !.status = 200, !.msg = "Logged out successfully"]
    /\ revoked' = revoked \cup ({token} \cap IssuedTokens)

NextAC ==
    \/ \E s \in Slots, p \in {PwAbcdef1, PwUnderscore, PwWeak} : AC_signup(s, "Ada", "ada@x.com", p)
    \/ \E s \in Slots : AC_signup_insert(s)
    \/ \E s \in Slots : AC_signup_otp(s, "123456")
    \/ \E s \in Slots, o \in OtpCodes : AC_verifyOtp(s, "ada@x.com", o)
    \/ \E s \in Slots : AC_verifyOtp_save(s)
    \/ \E s \in Slots, e \in Emails, p \in Passwords : AC_login(s, e, p)
    \/ \E s \in Slots, t \in Presentable : AC_refresh(s, t)
    \/ \E s \in Slots, t \in Presentable : AC_logout(s, t)
    \/ Tick

\* the stateless controller never queries by a path outside the schema, so
\* strictQuery is left at one value
InitAC == Init /\ ~env.strictQuery /\ DefaultConfig
SpecAC == InitAC /\ [][NextAC]_vars

(* ------- unnamed/part_000, "controllers/authController.js" (P0) -------- *)
\* crypto.randomBytes(40).toString('hex'): a value not drawn before
signRefreshToken == [typ |-> "opaque", id |-> 0, key |-> "none", iat |-> 0, exp |-> 0, n |-> nonce + 1]

\* [...(user.refreshTokens || []), refreshToken]
Spread(doc, token) ==
    [doc EXCEPT !.refreshTokens =
        [defined |-> TRUE,
         items |-> Append(IF doc.refreshTokens.defined THEN doc.refreshTokens.items ELSE <<>>, token)]]

\* exports.signup up to the save: field check, password policy, findOne
P0_signup(s, fullName, email, password) ==
    /\ Free(s)
    /\ RoomToInsert
    /\ UNCHANGED <<db, now, env, issued, rotated, revoked, streak, nonce>>
    /\ IF fullName = "" \/ email = "" \/ password = <<>>
       THEN Respond(s, Reply("signup", 400, "Full name, email, and password are required"))
       ELSE IF ~isStrongPassword(password)
       THEN Respond(s, [Reply("signup", 400, "Password weak") EXCEPT !.password = password])
       ELSE IF findOneByEmail(email) # 0
       THEN Respond(s, Reply("signup", 400, "Email already registered"))
       ELSE Continue(s, [IdleReq EXCEPT !.op = "signup", !.pc = "insert",
                           !.fullName = fullName, !.email = email, !.password = password])

\* the new document is saved with its OTP (lines 139-151)
P0_signup_save(s, otp) ==
    /\ req[s].op = "signup" /\ req[s].pc = "insert"
    /\ UNCHANGED <<now, env, issued, rotated, revoked, streak, nonce>>
    /\ LET r == req[s] IN
       IF ~ValidNewUser(r.fullName, r.email, r.password) \/ ~UniqueEmail(r.email)
       THEN /\ Respond(s, [Reply("signup", 500, "Server error during signup") EXCEPT
                               !.password = r.password,
                               !.cause = IF ValidNewUser(r.fullName, r.email, r.password)
                                         THEN "" ELSE "validator"])
            /\ UNCHANGED db
       ELSE /\ db' = Append(db, [NewUser(r.fullName, r.email, r.password)
                                   EXCEPT !.password = bcryptHash(r.password),
                                          !.otpHash = sha256(otp),
                                          !.otpExpires = now + OTP_TTL])
            /\ Respond(s, [Reply("signup", 201, "User created. Verify OTP sent to email.")
                             EXCEPT !.uid = Len(db) + 1, !.otp = otp, !.password = r.password,
                                    !.logged = {otp}])

\* exports.verifyOtp up to the save: field check, findOne, OTP check
P0_verifyOtp(s, email, otp) ==
    /\ Free(s)
    /\ UNCHANGED <<db, now, env, issued, rotated, revoked, streak, nonce>>
    /\ LET id == findOneByEmail(email) IN
       IF email = "" \/ otp = ""
       THEN Respond(s, Reply("verifyOtp", 400, "Email and OTP required"))
       ELSE IF id = 0
       THEN Respond(s, Reply("verifyOtp", 404, "User not found"))
       ELSE IF OtpRejected(db[id], otp)
       THEN Respond(s, OtpReply("verifyOtp", id, otp, 400, "Invalid or expired OTP"))
       ELSE /\ RoomToIssue
            /\ Continue(s, [IdleReq EXCEPT !.op = "verifyOtp", !.pc = "issue",
                             !.otp = otp, !.chk = OtpCheck(db[id], otp),
                             !.doc = ClearOtp(Load(id))])

\* the refresh token is drawn and put on the document, the document is saved
\* and the pair is returned (lines 172-182)
P0_verifyOtp_save(s) ==
    /\ req[s].op = "verifyOtp" /\ req[s].pc = "issue"
    /\ nonce < MaxNonce
    /\ UNCHANGED <<now, env, rotated, revoked, streak>>
    /\ LET doc == Spread(req[s].doc, signRefreshToken) IN
       /\ db' = SaveInto(db, doc)
       /\ nonce' = nonce + 1
       /\ issued' = issued \cup {[tok |-> signRefreshToken, uid |-> doc.id]}
       /\ RespondPairing(s, PairReply([Reply("verifyOtp", 200, "") EXCEPT !.uid = doc.id,
                                          !.paired = req[s].paired, !.pairedOp = req[s].pairedOp,
                                          !.pairedOtp = req[s].pairedOtp,
                                          !.otp = req[s].otp, !.chk = req[s].chk,
                                          !.changed = db' # db],
                                       signAccessToken(doc.id), signRefreshToken),
                         {t \in Slots : IssuingFor(doc.id, t) \/ ConsumingOtp(doc.id, t)})

\* what a client sees of an answer: the status and the body
Visible(r) == <<r.status, r.msg, r.accessToken, r.refreshToken>>

\* a login that tells the caller that the email has no account
userNotFoundLeak == [Reply("login", 404, "User not found") EXCEPT !.cause = "unknown"]

\* if (!user) return res.status(401).json({ message: 'Invalid credentials' })
P0_userNotFound == [Reply("login", 401, "Invalid credentials") EXCEPT !.cause = "unknown"]

\* exports.login up to the save: field check, findOne, matchPassword
P0_login(s, email, password) ==
    /\ Free(s)
    /\ UNCHANGED <<db, now, env, issued, rotated, revoked, nonce>>
    /\ LET id == findOneByEmail(email) IN
       IF email = "" \/ password = <<>>
       THEN /\ Respond(s, Reply("login", 400, "Email and password required"))
            /\ UNCHANGED streak
       ELSE IF id = 0
       THEN /\ Respond(s, [P0_userNotFound EXCEPT !.password = password])
            /\ UNCHANGED streak
       ELSE IF ~matchPassword(db[id], password)
       THEN /\ Respond(s, [LoginReply(id, 401, "Invalid credentials") EXCEPT
                               !.password = password, !.cause = "wrong",
                               !.stored = db[id].password])
            /\ streak' = CountFailure(id)
       ELSE /\ RoomToIssue
            /\ Continue(s, [IdleReq EXCEPT !.op = "login", !.pc = "issue",
                              !.password = password, !.doc = Load(id)])
            /\ UNCHANGED streak

\* the refresh token is drawn and put on the document, the document is saved
\* and the pair is returned (lines 202-208)
P0_login_save(s) ==
    /\ req[s].op = "login" /\ req[s].pc = "issue"
    /\ nonce < MaxNonce
    /\ UNCHANGED <<now, env, rotated, revoked>>
    /\ LET doc == Spread(req[s].doc, signRefreshToken) IN
       /\ db' = SaveInto(db, doc)
       /\ nonce' = nonce + 1
       /\ issued' = issued \cup {[tok |-> signRefreshToken, uid |-> doc.id]}
       /\ RespondPairing(s, PairReply([LoginReply(doc.id, 200, "") EXCEPT
                                          !.paired = req[s].paired, !.pairedOp = req[s].pairedOp,
                                          !.password = req[s].password,
                                          !.stored = req[s].doc.f.password,
                                          !.changed = db' # db],
                                       signAccessToken(doc.id), signRefreshToken),
                         {t \in Slots : IssuingFor(doc.id, t)})
       /\ streak' = CountSuccess(doc.id)

\* exports.refresh up to its findOne: the field check
P0_refresh(s, token) ==
    /\ Free(s)
    /\ UNCHANGED <<db, now, env, issued, rotated, revoked, streak, nonce>>
    /\ IF token = NoToken
       THEN Respond(s, [TokenReply("refresh", token) EXCEPT
                          !.status = 400, !.msg = "Refresh token required"])
       ELSE Continue(s, [IdleReq EXCEPT !.op = "refresh", !.pc = "find",
                           !.token = token, !.wasValid = Valid(token)])

\* a refresh of the same token is under way in the slot
RefreshingSame(token, t) == req[t].op = "refresh" /\ req[t].pc = "find" /\ req[t].token = token

\* findOne by refresh token, then filter and push on the loaded document's
\* refreshTokens, save, and the new pair (lines 275-286)
P0_refresh_find(s) ==
    /\ req[s].op = "refresh" /\ req[s].pc = "find"
    /\ UNCHANGED <<now, env, revoked, streak>>
    /\ LET token == req[s].token
           id == findOneByRefreshToken(token)
           base == [TokenReply("refresh", token) EXCEPT
                      !.wasValid = req[s].wasValid, !.paired = req[s].paired]
           doc == Load(id)
           kept == SelectSeq(doc.refreshTokens.items, LAMBDA t : t # token)
       IN
       IF id = 0
       THEN /\ RespondPairing(s, [base EXCEPT !.status = 401, !.msg = "Invalid refresh token"],
                              {t \in Slots : RefreshingSame(token, t)})
            /\ UNCHANGED <<db, issued, rotated, nonce>>
       ELSE IF ~doc.refreshTokens.defined
       THEN \* user.refreshTokens.filter on undefined throws
            /\ RespondPairing(s, [base EXCEPT !.status = 500, !.uid = id,
                                    !.msg = "Server error during token refresh"],
                              {t \in Slots : RefreshingSame(token, t)})
            /\ UNCHANGED <<db, issued, rotated, nonce>>
       ELSE /\ nonce < MaxNonce
            /\ db' = SaveInto(db, [doc EXCEPT !.refreshTokens.items = Append(kept, signRefreshToken)])
            /\ nonce' = nonce + 1
            /\ issued' = issued \cup {[tok |-> signRefreshToken, uid |-> id]}
            /\ rotated' = rotated \cup {token}
            /\ RespondPairing(s, PairReply([base EXCEPT !.status = 200, !.uid = id],
                                           signAccessToken(id), signRefreshToken),
                              {t \in Slots : RefreshingSame(token, t)})

\* exports.logout: findOne by refresh token, filter, save
P0_logout(s, token) ==
    /\ Free(s)
    /\ UNCHANGED <<now, env, issued, rotated, streak, nonce, req>>
    /\ LET id == findOneByRefreshToken(token)
           base == TokenReply("logout", token)
           doc == Load(id)
           kept == SelectSeq(doc.refreshTokens.items, LAMBDA t : t # token)
       IN
       IF token = NoToken
       THEN /\ resp' = [base EXCEPT !.status = 400, !.msg = "Refresh token required"]
            /\ UNCHANGED <<db, revoked>>
       ELSE IF id = 0
       THEN /\ resp' = [base EXCEPT !.status = 200, !.msg = "Already logged out"]
            /\ revoked' = revoked \cup ({token} \cap IssuedTokens)
            /\ UNCHANGED db
       ELSE IF ~doc.refreshTokens.defined
       THEN \* user.refreshTokens.filter on undefined throws
            /\ resp' = [base EXCEPT !.status = 500, !.uid = id,
                          !.msg = "Server error during logout"]
            /\ UNCHANGED <<db, revoked>>
       ELSE /\ db' = SaveInto(db, [doc EXCEPT !.refreshTokens.items = kept])
            /\ revoked' = revoked \cup ({token} \cap IssuedTokens)
            /\ resp' = [base EXCEPT !.status = 200, !.uid = id, !.changed = db' # db,
                          !.msg = "Logged out successfully"]

NextP0 ==
    \/ \E s \in Slots : P0_signup(s, "Ada", "ada@x.com", PwAbcdef1)
    \/ \E s \in Slots : P0_signup_save(s, "123456")
    \/ \E s \in Slots, e \in Emails : P0_verifyOtp(s, e, "123456")
    \/ \E s \in Slots : P0_verifyOtp_save(s)
    \/ \E s \in Slots, e \in Emails : P0_login(s, e, PwAbcdef1)
    \/ \E s \in Slots : P0_login_save(s)
    \/ \E s \in Slots, t \in Presentable \cup {NoToken} : P0_refresh(s, t)
    \/ \E s \in Slots : P0_refresh_find(s)
    \/ \E s \in Slots, t \in Presentable \cup {NoToken} : P0_logout(s, t)
    \/ Tick

\* this controller signs no refresh token, so JWT_REFRESH_SECRET is left at
\* one value
InitP0 == Init /\ env.refreshSecret /\ DefaultConfig
SpecP0 == InitP0 /\ [][NextP0]_vars

(* ------------------ unnamed/part_001, the router (P1) ------------------ *)
\* process.env.JWT_REFRESH_SECRET || process.env.JWT_SECRET
JWT_REFRESH_SECRET == IF env.refreshSecret THEN EnvRefreshSecret ELSE JWT_SECRET

\* generateTokens(user, oldRefreshToken): both tokens are signed, the old token
\* is filtered out when rotating, the new one is pushed on user.refreshTokens
\* (which throws when the property is undefined) and the document is saved
generateTokens(doc, oldRefreshToken) ==
    LET refreshToken == jwtSign(doc.id, JWT_REFRESH_SECRET, REFRESH_TTL)
        kept == IF oldRefreshToken = NoToken
                THEN doc.refreshTokens.items
                ELSE SelectSeq(doc.refreshTokens.items, LAMBDA t : t # oldRefreshToken)
    IN [threw |-> ~doc.refreshTokens.defined,
        doc |-> [doc EXCEPT !.refreshTokens.items = Append(kept, refreshToken)],
        accessToken |-> jwtSign(doc.id, JWT_SECRET, ACCESS_TTL),
        refreshToken |-> refreshToken]

\* router.post('/signup') up to the save: field check, password policy, findOne
P1_signup(s, fullName, email, password) ==
    /\ Free(s)
    /\ RoomToInsert
    /\ UNCHANGED <<db, now, env, issued, rotated, revoked, streak, nonce>>
    /\ IF fullName = "" \/ email = "" \/ password = <<>>
       THEN Respond(s, [Reply("signup", 400, "Full name, email, and password are required")
                          EXCEPT !.password = password, !.collided = Collides(email),
                                 !.email = email])
       ELSE IF ~isStrongPassword(password)
       THEN Respond(s, [Reply("signup", 400, "Password weak")
                          EXCEPT !.password = password, !.collided = Collides(email),
                                 !.email = email])
       ELSE IF findOneByEmail(email) # 0
       THEN Respond(s, [Reply("signup", 400, "Email already registered")
                          EXCEPT !.password = password, !.collided = Collides(email),
                                 !.email = email, !.reads = 1])
       ELSE Continue(s, [IdleReq EXCEPT !.op = "signup", !.pc = "insert",
                           !.fullName = fullName, !.email = email, !.password = password])

\* the new document is saved with its OTP, then the OTP is mailed;
\* sendOTPEmail throws when the mail cannot be sent (lines 55-69)
P1_signup_save(s, otp, delivered) ==
    /\ req[s].op = "signup" /\ req[s].pc = "insert"
    /\ UNCHANGED <<now, env, issued, rotated, revoked, streak, nonce>>
    /\ LET r == req[s] IN
       IF ~ValidNewUser(r.fullName, r.email, r.password) \/ ~UniqueEmail(r.email)
       THEN /\ Respond(s, [Reply("signup", 500, "Server Error") EXCEPT
                               !.password = r.password, !.email = r.email,
                               !.reads = IF ~ValidNewUser(r.fullName, r.email, r.password)
                                         THEN 1 ELSE 2,
                               !.cause = IF ~ValidNewUser(r.fullName, r.email, r.password)
                                         THEN "validator" ELSE "index"])
            /\ UNCHANGED db
       ELSE /\ db' = Append(db, [NewUser(r.fullName, r.email, r.password)
                                   EXCEPT !.password = bcryptHash(r.password),
                                          !.otpHash = sha256(otp),
                                          !.otpExpires = now + OTP_TTL])
            /\ IF delivered
               THEN Respond(s, [Reply("signup", 201, "User created. Verify OTP sent to your email.")
                                  EXCEPT !.uid = Len(db) + 1, !.otp = otp, !.email = r.email,
                                         !.reads = 2, !.logged = {otp},
                                         !.password = r.password, !.changed = TRUE])
               ELSE Respond(s, [Reply("signup", 500, "Server Error")
                                  EXCEPT !.uid = Len(db) + 1, !.otp = otp, !.email = r.email,
                                         !.reads = 2,
                                         !.password = r.password, !.changed = TRUE,
                                         !.cause = "mail"])

\* router.post('/verify-otp') up to the save: field check, findOne, OTP check
P1_verifyOtp(s, email, otp) ==
    /\ Free(s)
    /\ UNCHANGED <<db, now, env, issued, rotated, revoked, streak, nonce>>
    /\ LET id == findOneByEmail(email) IN
       IF email = "" \/ otp = ""
       THEN Respond(s, Reply("verifyOtp", 400, "Email and OTP required"))
       ELSE IF id = 0
       THEN Respond(s, Reply("verifyOtp", 404, "User not found"))
       ELSE IF OtpRejected(db[id], otp)
       THEN Respond(s, OtpReply("verifyOtp", id, otp, 400, "Invalid or expired OTP"))
       ELSE Continue(s, [IdleReq EXCEPT !.op = "verifyOtp", !.pc = "clear",
                           !.otp = otp, !.chk = OtpCheck(db[id], otp),
                           !.doc = ClearOtp(Load(id))])

\* the cleared OTP is saved, then generateTokens runs (lines 88-98)
P1_verifyOtp_save(s) ==
    /\ req[s].op = "verifyOtp" /\ req[s].pc = "clear"
    /\ UNCHANGED <<now, env, rotated, revoked, streak, nonce>>
    /\ LET g == generateTokens(req[s].doc, NoToken) IN
       IF g.threw
       THEN /\ db' = SaveInto(db, req[s].doc)
            /\ Respond(s, [Reply("verifyOtp", 500, "Server Error") EXCEPT
                               !.uid = g.doc.id, !.otp = req[s].otp, !.chk = req[s].chk,
                               !.changed = db' # db])
            /\ UNCHANGED issued
       ELSE /\ Cardinality(issued \cup {[tok |-> g.refreshToken, uid |-> g.doc.id]}) <= MaxIssued
            /\ db' = SaveInto(db, g.doc)
            /\ issued' = issued \cup {[tok |-> g.refreshToken, uid |-> g.doc.id]}
            /\ Respond(s, PairReply([Reply("verifyOtp", 200, "") EXCEPT
                                         !.uid = g.doc.id, !.otp = req[s].otp, !.chk = req[s].chk],
                                     g.accessToken, g.refreshToken))

\* router.post('/login'): field check, findOne, matchPassword, generateTokens
P1_login(s, email, password) ==
    /\ Free(s)
    /\ UNCHANGED <<now, env, rotated, revoked, nonce, req>>
    /\ LET id == findOneByEmail(email)
           g == generateTokens(Load(id), NoToken)
       IN
       IF email = "" \/ password = <<>>
       THEN /\ resp' = Reply("login", 400, "Email and password required")
            /\ UNCHANGED <<db, issued, streak>>
       ELSE IF id = 0
       THEN /\ resp' = Reply("login", 400, "Invalid credentials")
            /\ UNCHANGED <<db, issued, streak>>
       ELSE IF ~matchPassword(db[id], password)
       THEN /\ resp' = [LoginReply(id, 400, "Invalid credentials") EXCEPT
                            !.password = password, !.stored = db[id].password]
            /\ streak' = CountFailure(id)
            /\ UNCHANGED <<db, issued>>
       ELSE IF g.threw
       THEN /\ resp' = [LoginReply(id, 500, "Server Error") EXCEPT
                            !.password = password, !.stored = db[id].password]
            /\ UNCHANGED <<db, issued, streak>>
       ELSE /\ Cardinality(issued \cup {[tok |-> g.refreshToken, uid |-> id]}) <= MaxIssued
            /\ db' = SaveInto(db, g.doc)
            /\ issued' = issued \cup {[tok |-> g.refreshToken, uid |-> id]}
            /\ streak' = CountSuccess(id)
            /\ resp' = PairReply([LoginReply(id, 200, "") EXCEPT
                                      !.password = password, !.stored = db[id].password],
                                  g.accessToken, g.refreshToken)

\* router.post('/refresh'): jwt.verify, findById, the token is looked up in
\* user.refreshTokens, generateTokens rotates; every throw answers 401
P1_refresh(s, token) ==
    /\ Free(s)
    /\ UNCHANGED <<now, env, revoked, streak, nonce, req>>
    /\ LET id == findById(token.id)
           base == TokenReply("refresh", token)
           doc == Load(id)
           g == generateTokens(doc, token)
       IN
       IF token = NoToken
       THEN /\ resp' = [base EXCEPT !.status = 400, !.msg = "Refresh token required"]
            /\ UNCHANGED <<db, issued, rotated>>
       ELSE IF ~jwtVerify(token, JWT_REFRESH_SECRET)
       THEN /\ resp' = [base EXCEPT !.status = 401, !.msg = "Invalid or expired refresh token"]
            /\ UNCHANGED <<db, issued, rotated>>
       ELSE IF id = 0
       THEN /\ resp' = [base EXCEPT !.status = 401, !.msg = "User not found"]
            /\ UNCHANGED <<db, issued, rotated>>
       ELSE IF ~doc.refreshTokens.defined
       THEN \* user.refreshTokens.find on undefined throws
            /\ resp' = [base EXCEPT !.status = 401, !.uid = id,
                          !.msg = "Invalid or expired refresh token"]
            /\ UNCHANGED <<db, issued, rotated>>
       ELSE IF \A k \in 1..Len(doc.refreshTokens.items) : doc.refreshTokens.items[k] # token
       THEN /\ resp' = [base EXCEPT !.status = 401, !.uid = id, !.msg = "Invalid refresh token"]
            /\ UNCHANGED <<db, issued, rotated>>
       ELSE /\ Cardinality(issued \cup {[tok |-> g.refreshToken, uid |-> id]}) <= MaxIssued
            /\ db' = SaveInto(db, g.doc)
            /\ issued' = issued \cup {[tok |-> g.refreshToken, uid |-> id]}
            /\ rotated' = rotated \cup {token}
            /\ resp' = PairReply([base EXCEPT !.status = 200, !.uid = id],
                                  g.accessToken, g.refreshToken)

\* router.post('/logout'): jwt.verify, findById, filter, save; every throw
\* answers 401
P1_logout(s, token) ==
    /\ Free(s)
    /\ UNCHANGED <<now, env, issued, rotated, streak, nonce, req>>
    /\ LET id == findById(token.id)
           base == TokenReply("logout", token)
           doc == Load(id)
           kept == SelectSeq(doc.refreshTokens.items, LAMBDA t : t # token)
       IN
       IF token = NoToken
       THEN /\ resp' = [base EXCEPT !.status = 400, !.msg = "Refresh token required"]
            /\ UNCHANGED <<db, revoked>>
       ELSE IF ~jwtVerify(token, JWT_REFRESH_SECRET)
       THEN /\ resp' = [base EXCEPT !.status = 401, !.msg = "Invalid refresh token"]
            /\ UNCHANGED <<db, revoked>>
       ELSE IF id = 0
       THEN /\ resp' = [base EXCEPT !.status = 401, !.msg = "User not found"]
            /\ UNCHANGED <<db, revoked>>
       ELSE IF ~doc.refreshTokens.defined
       THEN \* user.refreshTokens.filter on undefined throws
            /\ resp' = [base EXCEPT !.status = 401, !.uid = id, !.msg = "Invalid refresh token"]
            /\ UNCHANGED <<db, revoked>>
       ELSE /\ db' = SaveInto(db, [doc EXCEPT !.refreshTokens.items = kept])
            /\ revoked' = revoked \cup ({token} \cap IssuedTokens)
            /\ resp' = [base EXCEPT !.status = 200, !.uid = id, !.changed = db' # db,
                          !.msg = "Logged out (refresh token revoked)"]

NextP1 ==
    \/ \E s \in Slots : P1_signup(s, "Ada", "ada@x.com", PwAbcdef1)
    \/ \E s \in Slots, d \in BOOLEAN : P1_signup_save(s, "123456", d)
    \/ \E s \in Slots, e \in Emails, o \in OtpCodes : P1_verifyOtp(s, e, o)
    \/ \E s \in Slots : P1_verifyOtp_save(s)
    \/ \E s \in Slots, e \in Emails, p \in Passwords : P1_login(s, e, p)
    \/ \E s \in Slots, t \in Presentable \cup {NoToken} : P1_refresh(s, t)
    \/ \E s \in Slots, t \in Presentable \cup {NoToken} : P1_logout(s, t)
    \/ Tick

\* the router never queries by a path outside the schema, so strictQuery is
\* left at one value
InitP1 == Init /\ ~env.strictQuery /\ DefaultConfig
SpecP1 == InitP1 /\ [][NextP1]_vars

(* ---------------- backend/models/user.js: the lockout ------------------ *)
\* the virtual isLocked: !!(this.lockUntil && this.lockUntil > Date.now())
isLocked(f) == f.lockUntil # NullDate /\ f.lockUntil > now

\* an incrementLoginAttempts that locks one failure late (> instead of >=)
incrementLoginAttemptsLate(doc) ==
    IF doc.f.lockUntil # NullDate /\ doc.f.lockUntil < now
    THEN SetPath(SetPath(doc, "loginAttempts", 1), "lockUntil", NullDate)
    ELSE LET d == SetPath(doc, "loginAttempts", doc.f.loginAttempts + 1) IN
         IF d.f.loginAttempts > MAX_ATTEMPTS /\ ~isLocked(d.f)
         THEN SetDate(d, "lockUntil", now + LOCK_TIME)
         ELSE d

\* the body of incrementLoginAttempts on a loaded document, before its save
incrementLoginAttempts(doc) ==
    IF doc.f.lockUntil # NullDate /\ doc.f.lockUntil < now
    THEN SetPath(SetPath(doc, "loginAttempts", 1), "lockUntil", NullDate)
    ELSE LET d == SetPath(doc, "loginAttempts", doc.f.loginAttempts + 1) IN
         IF d.f.loginAttempts >= MAX_ATTEMPTS /\ ~isLocked(d.f)
         THEN SetDate(d, "lockUntil", now + LOCK_TIME)
         ELSE d

\* a caller of the model loads the account by its email
U_findOne(s, email) ==
    /\ Free(s)
    /\ findOneByEmail(email) # 0
    /\ Continue(s, [IdleReq EXCEPT !.op = "recordFailure", !.pc = "loaded",
                      !.doc = Load(findOneByEmail(email))])
    /\ UNCHANGED <<db, now, env, issued, rotated, revoked, streak, nonce>>

\* user.incrementLoginAttempts(): the counters change and the document is
\* saved.  resp tells what the call found: locked = the account was in a lock,
\* replay = that lock's 30 minutes had passed
U_incrementLoginAttempts(s) ==
    /\ req[s].op = "recordFailure" /\ req[s].pc = "loaded"
    /\ req[s].doc.f.loginAttempts < MaxAttempts
    /\ db' = SaveInto(db, incrementLoginAttempts(req[s].doc))
    /\ Respond(s, [Reply("recordFailure", 0, "") EXCEPT !.uid = req[s].doc.id,
                     !.locked = req[s].doc.f.lockUntil # NullDate,
                     !.replay = req[s].doc.f.lockUntil # NullDate /\ req[s].doc.f.lockUntil <= now])
    /\ UNCHANGED <<now, env, issued, rotated, revoked, streak, nonce>>

LockTick == TickTo(MaxLockTime)

\* the lockout on its own: an account, the model's method and the clock
NextLock ==
    \/ \E s \in Slots : P0_signup(s, "Ada", "ada@x.com", PwAbcdef1)
    \/ \E s \in Slots : P0_signup_save(s, "123456")
    \/ \E s \in Slots : U_findOne(s, "ada@x.com")
    \/ \E s \in Slots : U_incrementLoginAttempts(s)
    \/ LockTick

InitLock == Init /\ env.refreshSecret /\ ~env.strictQuery /\ DefaultConfig
SpecLock == InitLock /\ [][NextLock]_vars

\* the login handlers next to the lockout
NextLogin ==
    \/ \E s \in Slots : P0_signup(s, "Ada", "ada@x.com", PwAbcdef1)
    \/ \E s \in Slots : P0_signup_save(s, "123456")
    \/ \E s \in Slots, p \in Passwords : P0_login(s, "ada@x.com", p)
    \/ \E s \in Slots : P0_login_save(s)
    \/ \E s \in Slots, p \in Passwords : P1_login(s, "ada@x.com", p)
    \/ \E s \in Slots : U_findOne(s, "ada@x.com")
    \/ \E s \in Slots : U_incrementLoginAttempts(s)
    \/ Tick

SpecLogin == InitLock /\ [][NextLogin]_vars

(* ---- unnamed/part_000: requestOtp and resetPassword (the same code is ---- *)
(* ---- in backend/controllers/authController.js, lines 104-153)         ---- *)
\* exports.requestOtp up to the save: field check, findOne
P0_requestOtp(s, email) ==
    /\ Free(s)
    /\ UNCHANGED <<db, now, env, issued, rotated, revoked, streak, nonce>>
    /\ LET id == findOneByEmail(email) IN
       IF email = ""
       THEN Respond(s, Reply("requestOtp", 400, "Email required"))
       ELSE IF id = 0
       THEN Respond(s, Reply("requestOtp", 404, "User not found"))
       ELSE Continue(s, [IdleReq EXCEPT !.op = "requestOtp", !.pc = "otp", !.doc = Load(id)])

\* a new OTP is drawn, its hash and expiry are put on the document and saved
\* (lines 223-229)
P0_requestOtp_save(s, otp) ==
    /\ req[s].op = "requestOtp" /\ req[s].pc = "otp"
    /\ UNCHANGED <<now, env, issued, rotated, revoked, streak, nonce>>
    /\ LET doc == SetDate(SetPath(req[s].doc, "otpHash", sha256(otp)),
                          "otpExpires", now + OTP_TTL)
       IN /\ db' = SaveInto(db, doc)
          /\ Respond(s, [Reply("requestOtp", 200, "OTP generated and sent (dev log)")
                           EXCEPT !.uid = doc.id, !.otp = otp, !.changed = db' # db,
                                  !.logged = {otp}])

\* exports.resetPassword up to the save: field check, password policy,
\* findOne, OTP check.  The answer about a weak password is given before the
\* store is read; its uid and chk tell what the store held at that moment.
P0_resetPassword(s, email, otp, newPassword) ==
    /\ Free(s)
    /\ UNCHANGED <<db, now, env, issued, rotated, revoked, streak, nonce>>
    /\ LET id == findOneByEmail(email) IN
       IF email = "" \/ otp = "" \/ newPassword = <<>>
       THEN Respond(s, Reply("resetPassword", 400, "Email, OTP, and new password required"))
       ELSE IF ~isStrongPassword(newPassword)
       THEN Respond(s, [Reply("resetPassword", 400, "Password weak. Follow policy.") EXCEPT
                          !.uid = id, !.otp = otp, !.password = newPassword,
                          !.chk = IF id = 0 THEN NoCheck ELSE OtpCheck(db[id], otp)])
       ELSE IF id = 0
       THEN Respond(s, [Reply("resetPassword", 404, "User not found") EXCEPT
                          !.otp = otp, !.password = newPassword])
       ELSE IF OtpRejected(db[id], otp)
       THEN Respond(s, [OtpReply("resetPassword", id, otp, 400, "Invalid or expired OTP")
                          EXCEPT !.password = newPassword])
       ELSE Continue(s, [IdleReq EXCEPT !.op = "resetPassword", !.pc = "reset",
                           !.otp = otp, !.chk = OtpCheck(db[id], otp),
                           !.password = newPassword,
                           !.doc = ClearOtp(SetPath(Load(id), "password", newPassword))])

\* a reset that logs the account out everywhere
RevokeSessions == issued' = issued /\ rotated' = rotated /\ revoked' = IssuedTokens

\* resetPassword assigns password, otpHash and otpExpires and nothing else
\* (lines 257-259): no token is rotated or logged out
KeepSessions == UNCHANGED <<issued, rotated, revoked>>

\* await user.save(): the validators of the modified password path run on the
\* plaintext, then the pre-save hook hashes it (lines 257-262)
P0_resetPassword_save(s) ==
    /\ req[s].op = "resetPassword" /\ req[s].pc = "reset"
    /\ UNCHANGED <<now, env, streak, nonce>>
    /\ KeepSessions
    /\ LET r == req[s]
           base == [Reply("resetPassword", 200, "Password reset successful") EXCEPT
                      !.uid = r.doc.id, !.otp = r.otp, !.chk = r.chk,
                      !.password = r.password,
                      !.paired = r.paired, !.pairedOp = r.pairedOp,
                             !.pairedOtp = r.pairedOtp]
       IN
       IF ~ValidNewUser(r.doc.f.fullName, r.doc.f.email, r.password)
       THEN /\ UNCHANGED db
            /\ RespondPairing(s, [base EXCEPT !.status = 500, !.cause = "validator",
                                    !.msg = "Server error during password reset"],
                              {t \in Slots : IssuingFor(r.doc.id, t) \/ ConsumingOtp(r.doc.id, t)})
       ELSE /\ db' = SaveInto(db, SetPath(r.doc, "password", bcryptHash(r.password)))
            /\ RespondPairing(s, [base EXCEPT !.changed = db' # db],
                              {t \in Slots : IssuingFor(r.doc.id, t) \/ ConsumingOtp(r.doc.id, t)})

\* backend/controllers/authController.js has the same resetPassword (lines
\* 126-153) next to its stateless login and refresh
AC_resetPassword(s, email, otp, newPassword) == P0_resetPassword(s, email, otp, newPassword)
AC_resetPassword_save(s) == P0_resetPassword_save(s)

\* signup of authController.js watched by other requests: logins, and
\* verifyOtp calls with a code that was never issued, so that no OTP is consumed
NextSignupAC ==
    \/ \E s \in Slots, e \in SignupEmails : AC_signup(s, "Ada", e, PwAbcdef1)
    \/ \E s \in Slots : AC_signup_insert(s)
    \/ \E s \in Slots : AC_signup_otp(s, "123456")
    \/ \E s \in Slots : AC_verifyOtp(s, "ada@x.com", "654321")
    \/ \E s \in Slots : AC_login(s, "ada@x.com", PwAbcdef1)
    \/ Tick

SpecSignupAC == InitLock /\ [][NextSignupAC]_vars

(* ------ unnamed/part_004 (middleware/authMiddleware.js), routes/protected.js ------ *)
\* the Authorization header: absent, or a token with or without the scheme
NoHeader == [scheme |-> "", token |-> NoToken]

\* req.header('Authorization')?.replace('Bearer ', ''): the scheme is cut off
\* when it is there; an absent header and an empty token are falsy
bearerToken(header) == header.token

\* .select('-password -otpHash -otpExpires') of the found document
Select(f, excluded) == [p \in DOMAIN f \ excluded |-> f[p]]

\* the access token that login returned next to an issued refresh token
AccessTokenOf(i) ==
    [typ |-> "jwt", id |-> i.uid, key |-> JWT_SECRET, iat |-> i.tok.iat,
     exp |-> i.tok.iat + JWT_EXPIRES_IN, n |-> 0]

\* the headers a client may send: none, the access and refresh tokens it was
\* given (with and without the scheme) and a string that is no token
Headers ==
    {NoHeader} \cup
    [scheme : {"Bearer ", ""},
     token : {AccessTokenOf(i) : i \in issued} \cup IssuedTokens \cup {Malformed}]

\* router.get('/profile', authenticate, handler): authenticate answers 401 or
\* attaches the user and calls next(); the handler answers with id, fullName
\* and email of req.user
profile(s, header) ==
    /\ Free(s)
    /\ UNCHANGED <<db, now, env, issued, rotated, revoked, streak, nonce, req>>
    /\ LET token == bearerToken(header)
           base == [Reply("profile", 401, "") EXCEPT !.presented = token]
           id == findById(token.id)
           user == Select(db[id], {"password", "otpHash", "otpExpires"})
       IN
       IF token = NoToken
       THEN resp' = [base EXCEPT !.msg = "Access Denied. No token provided."]
       ELSE IF ~jwtVerify(token, JWT_SECRET)
       THEN resp' = [base EXCEPT !.msg = "Invalid or expired token."]
       ELSE IF id = 0
       THEN resp' = [base EXCEPT !.msg = "User not found"]
       ELSE resp' = [base EXCEPT !.status = 200, !.msg = "Welcome", !.uid = id,
                                 !.attached = DOMAIN user,
                                 !.body = [id |-> id, fullName |-> user.fullName,
                                           email |-> user.email]]

\* the protected route next to signup and login of authController.js
NextProfile ==
    \/ \E s \in Slots, e \in Emails : AC_signup(s, "Ada", e, PwAbcdef1)
    \/ \E s \in Slots : AC_signup_insert(s)
    \/ \E s \in Slots : AC_signup_otp(s, "123456")
    \/ \E s \in Slots, e \in Emails : AC_login(s, e, PwAbcdef1)
    \/ \E s \in Slots, h \in Headers : profile(s, h)
    \/ Tick

SpecProfile == InitLock /\ [][NextProfile]_vars

\* sessions across a password reset in authController.js
NextSessAC ==
    \/ \E s \in Slots : AC_signup(s, "Ada", "ada@x.com", PwAbcdef1)
    \/ \E s \in Slots : AC_signup_insert(s)
    \/ \E s \in Slots : AC_signup_otp(s, "123456")
    \/ \E s \in Slots, p \in Passwords : AC_login(s, "ada@x.com", p)
    \/ \E s \in Slots, p \in {PwStr0ng, PwWeak} : AC_resetPassword(s, "ada@x.com", "123456", p)
    \/ \E s \in Slots : AC_resetPassword_save(s)
    \/ \E s \in Slots, t \in Presentable : AC_refresh(s, t)
    \/ \E s \in Slots, t \in Presentable : AC_logout(s, t)
    \/ Tick

SpecSessAC == InitLock /\ [][NextSessAC]_vars

(* ----------------- credentials over their whole lifetime ---------------- *)
\* the clock advances by five minutes
LifeTick == TickTo(MaxLifeTime)

\* seven days pass without a request
WeekPasses ==
    /\ now < REFRESH_TTL
    /\ now' = now + REFRESH_TTL
    /\ resp' = NoResp
    /\ UNCHANGED <<db, env, req, issued, rotated, revoked, streak, nonce>>

\* the headers of a client that sends the scheme
BearerHeaders == {h \in Headers : h.scheme = "Bearer "}

\* the tokens of authController.js presented to refresh and to the protected
\* route while they age, under every configuration of the two lifetimes
NextLife ==
    \/ \E s \in Slots : AC_signup(s, "Ada", "ada@x.com", PwAbcdef1)
    \/ \E s \in Slots : AC_signup_insert(s)
    \/ \E s \in Slots : AC_signup_otp(s, "123456")
    \/ \E s \in Slots : AC_login(s, "ada@x.com", PwAbcdef1)
    \/ \E s \in Slots, t \in IssuedTokens : AC_refresh(s, t)
    \/ \E s \in Slots, h \in BearerHeaders : profile(s, h)
    \/ LifeTick
    \/ WeekPasses

InitLife == Init /\ env.refreshSecret /\ ~env.strictQuery /\ ~env.sameSecret
SpecLife == InitLife /\ [][NextLife]_vars

\* the refresh tokens of authController.js and of part_001 presented to the
\* protected route, under every configuration of the two secrets
NextCross ==
    \/ \E s \in Slots : AC_signup(s, "Ada", "ada@x.com", PwAbcdef1)
    \/ \E s \in Slots : AC_signup_insert(s)
    \/ \E s \in Slots : AC_signup_otp(s, "123456")
    \/ \E s \in Slots : AC_verifyOtp(s, "ada@x.com", "123456")
    \/ \E s \in Slots : AC_verifyOtp_save(s)
    \/ \E s \in Slots : AC_login(s, "ada@x.com", PwAbcdef1)
    \/ \E s \in Slots : P1_login(s, "ada@x.com", PwAbcdef1)
    \/ \E s \in Slots, t \in IssuedTokens : AC_refresh(s, t)
    \/ \E s \in Slots, h \in BearerHeaders : profile(s, h)
    \/ Tick

InitCross == Init /\ ~env.strictQuery /\ env.expiresIn = 0 /\ env.refreshExpiresIn = 0
SpecCross == InitCross /\ [][NextCross]_vars

\* the headers that carry an access token
AccessHeaders == {h \in BearerHeaders : \E i \in issued : h.token = AccessTokenOf(i)}

\* the access tokens of authController.js presented to the protected route
\* across logout, refresh and a password reset
NextRevoke ==
    \/ \E s \in Slots : AC_signup(s, "Ada", "ada@x.com", PwAbcdef1)
    \/ \E s \in Slots : AC_signup_insert(s)
    \/ \E s \in Slots : AC_signup_otp(s, "123456")
    \/ \E s \in Slots : AC_login(s, "ada@x.com", PwAbcdef1)
    \/ \E s \in Slots : AC_resetPassword(s, "ada@x.com", "123456", PwStr0ng)
    \/ \E s \in Slots : AC_resetPassword_save(s)
    \/ \E s \in Slots, t \in IssuedTokens : AC_refresh(s, t)
    \/ \E s \in Slots, t \in IssuedTokens : AC_logout(s, t)
    \/ \E s \in Slots, h \in AccessHeaders : profile(s, h)
    \/ Tick

SpecRevoke == InitLock /\ [][NextRevoke]_vars

\* the OTP life cycle of part_000: signup issues "123456", requestOtp issues
\* "654321"
NextOtp0 ==
    \/ \E s \in Slots : P0_signup(s, "Ada", "ada@x.com", PwAbcdef1)
    \/ \E s \in Slots : P0_signup_save(s, "123456")
    \/ \E s \in Slots, o \in OtpCodes : P0_verifyOtp(s, "ada@x.com", o)
    \/ \E s \in Slots : P0_verifyOtp_save(s)
    \/ \E s \in Slots : P0_requestOtp(s, "ada@x.com")
    \/ \E s \in Slots : P0_requestOtp_save(s, "654321")
    \/ \E s \in Slots, o \in OtpCodes, p \in {PwStr0ng, PwWeak} :
          P0_resetPassword(s, "ada@x.com", o, p)
    \/ \E s \in Slots : P0_resetPassword_save(s)
    \/ Tick

SpecOtp0 == InitLock /\ [][NextOtp0]_vars

\* resetPassword next to login in part_000: the account signs up with
\* "Abcdef1!" and resets with the OTP of its signup
NextReset0 ==
    \/ \E s \in Slots, p \in {PwAbcdef1, PwUnderscore, PwWeak} : P0_signup(s, "Ada", "ada@x.com", p)
    \/ \E s \in Slots : P0_signup_save(s, "123456")
    \/ \E s \in Slots, p \in {PwStr0ng, PwUnderscore, PwWeak} :
          P0_resetPassword(s, "ada@x.com", "123456", p)
    \/ \E s \in Slots : P0_resetPassword_save(s)
    \/ \E s \in Slots, e \in Emails, p \in Passwords : P0_login(s, e, p)
    \/ \E s \in Slots : P0_login_save(s)
    \/ Tick

SpecReset0 == InitLock /\ [][NextReset0]_vars

(* ------ unnamed/part_001: forgot-password and reset-password ------------ *)
\* router.post('/forgot-password') up to the save: field check, findOne
P1_forgotPassword(s, email) ==
    /\ Free(s)
    /\ UNCHANGED <<db, now, env, issued, rotated, revoked, streak, nonce>>
    /\ LET id == findOneByEmail(email) IN
       IF email = ""
       THEN Respond(s, Reply("requestOtp", 400, "Email is required"))
       ELSE IF id = 0
       THEN Respond(s, Reply("requestOtp", 400, "No user with this email"))
       ELSE Continue(s, [IdleReq EXCEPT !.op = "requestOtp", !.pc = "otp", !.doc = Load(id)])

\* the new OTP is saved, then mailed; sendOTPEmail throws when the mail cannot
\* be sent (lines 143-154)
P1_forgotPassword_save(s, otp, delivered) ==
    /\ req[s].op = "requestOtp" /\ req[s].pc = "otp"
    /\ UNCHANGED <<now, env, issued, rotated, revoked, streak, nonce>>
    /\ LET doc == SetDate(SetPath(req[s].doc, "otpHash", sha256(otp)),
                          "otpExpires", now + OTP_TTL)
           base == [Reply("requestOtp", 200, "OTP sent to your email for password reset")
                      EXCEPT !.uid = doc.id, !.otp = otp, !.changed = db' # db]
       IN /\ db' = SaveInto(db, doc)
          /\ IF delivered
             THEN Respond(s, [base EXCEPT !.logged = {otp}])
             ELSE Respond(s, [base EXCEPT !.status = 500, !.msg = "Server Error",
                                          !.cause = "mail"])

\* router.post('/reset-password') up to the save: field check, password
\* policy, findOne, OTP presence and expiry, then the hash comparison.  The
\* answer about a weak password is given before the store is read; its uid and
\* chk tell what the store held at that moment.
P1_resetPassword(s, email, otp, newPassword) ==
    /\ Free(s)
    /\ UNCHANGED <<db, now, env, issued, rotated, revoked, streak, nonce>>
    /\ LET id == findOneByEmail(email) IN
       IF email = "" \/ otp = "" \/ newPassword = <<>>
       THEN Respond(s, Reply("resetPassword", 400, "Email, OTP, and new password are required"))
       ELSE IF ~isStrongPassword(newPassword)
       THEN Respond(s, [Reply("resetPassword", 400, "Password weak. Must follow policy.") EXCEPT
                          !.uid = id, !.otp = otp, !.password = newPassword,
                          !.chk = IF id = 0 THEN NoCheck ELSE OtpCheck(db[id], otp)])
       ELSE IF id = 0
       THEN Respond(s, [Reply("resetPassword", 400, "Invalid or expired OTP") EXCEPT
                          !.otp = otp, !.password = newPassword])
       ELSE IF db[id].otpHash = Null \/ db[id].otpExpires = NullDate \/ db[id].otpExpires < now
       THEN Respond(s, [OtpReply("resetPassword", id, otp, 400, "Invalid or expired OTP")
                          EXCEPT !.password = newPassword])
       ELSE IF sha256(otp) # db[id].otpHash
       THEN Respond(s, [OtpReply("resetPassword", id, otp, 400, "Incorrect OTP")
                          EXCEPT !.password = newPassword])
       ELSE Continue(s, [IdleReq EXCEPT !.op = "resetPassword", !.pc = "reset",
                           !.otp = otp, !.chk = OtpCheck(db[id], otp),
                           !.password = newPassword,
                           !.doc = ClearOtp(SetPath(Load(id), "password", newPassword))])

\* await user.save(): the validators of the modified password path run on the
\* plaintext, then the pre-save hook hashes it (lines 178-187)
P1_resetPassword_save(s) ==
    /\ req[s].op = "resetPassword" /\ req[s].pc = "reset"
    /\ UNCHANGED <<now, env, issued, rotated, revoked, streak, nonce>>
    /\ LET r == req[s]
           base == [Reply("resetPassword", 200, "Password reset successful. You can now log in.")
                      EXCEPT !.uid = r.doc.id, !.otp = r.otp, !.chk = r.chk,
                             !.password = r.password,
                             !.paired = r.paired, !.pairedOp = r.pairedOp,
                             !.pairedOtp = r.pairedOtp]
       IN
       IF ~ValidNewUser(r.doc.f.fullName, r.doc.f.email, r.password)
       THEN /\ UNCHANGED db
            /\ RespondPairing(s, [base EXCEPT !.status = 500, !.cause = "validator",
                                    !.msg = "Server Error"],
                              {t \in Slots : ConsumingOtp(r.doc.id, t)})
       ELSE /\ db' = SaveInto(db, SetPath(r.doc, "password", bcryptHash(r.password)))
            /\ RespondPairing(s, [base EXCEPT !.changed = db' # db],
                              {t \in Slots : ConsumingOtp(r.doc.id, t)})

\* the OTP life cycle of part_001: signup issues "123456", forgot-password
\* issues "654321"
NextOtp1 ==
    \/ \E s \in Slots : P1_signup(s, "Ada", "ada@x.com", PwAbcdef1)
    \/ \E s \in Slots : P1_signup_save(s, "123456", TRUE)
    \/ \E s \in Slots, o \in OtpCodes : P1_verifyOtp(s, "ada@x.com", o)
    \/ \E s \in Slots : P1_verifyOtp_save(s)
    \/ \E s \in Slots : P1_forgotPassword(s, "ada@x.com")
    \/ \E s \in Slots, d \in BOOLEAN : P1_forgotPassword_save(s, "654321", d)
    \/ \E s \in Slots, o \in OtpCodes, p \in {PwStr0ng, PwUnderscore, PwWeak} :
          P1_resetPassword(s, "ada@x.com", o, p)
    \/ \E s \in Slots : P1_resetPassword_save(s)
    \/ Tick

SpecOtp1 == InitLock /\ [][NextOtp1]_vars

\* login of part_001 next to the OTP of the signup
NextLogin1 ==
    \/ \E s \in Slots : P1_signup(s, "Ada", "ada@x.com", PwAbcdef1)
    \/ \E s \in Slots : P1_signup_save(s, "123456", TRUE)
    \/ \E s \in Slots, e \in Emails, p \in Passwords : P1_login(s, e, p)
    \/ \E s \in Slots, o \in OtpCodes : P1_verifyOtp(s, "ada@x.com", o)
    \/ \E s \in Slots : P1_verifyOtp_save(s)
    \/ Tick

SpecLogin1 == InitLock /\ [][NextLogin1]_vars

\* signup of part_001 with emails that differ in letter case only, with and
\* without delivery of the mail; the OTP of the new account is then used
\* signup of part_001 with a field missing and with an email that is no email
NextInput1 ==
    \/ \E s \in Slots, e \in {"ada@x.com", "ada", ""}, p \in {PwAbcdef1, PwWeak, <<>>} :
          P1_signup(s, "Ada", e, p)
    \/ \E s \in Slots : P1_signup_save(s, "123456", TRUE)
    \/ Tick

SpecInput1 == InitLock /\ [][NextInput1]_vars

NextSignup1 ==
    \/ \E s \in Slots, e \in SignupEmails, p \in {PwAbcdef1, PwWeak} : P1_signup(s, "Ada", e, p)
    \/ \E s \in Slots, d \in BOOLEAN : P1_signup_save(s, "123456", d)
    \/ \E s \in Slots, e \in SignupEmails : P1_forgotPassword(s, e)
    \/ \E s \in Slots, d \in BOOLEAN : P1_forgotPassword_save(s, "654321", d)
    \/ \E s \in Slots, e \in SignupEmails, o \in OtpCodes : P1_verifyOtp(s, e, o)
    \/ \E s \in Slots : P1_verifyOtp_save(s)
    \/ Tick

SpecSignup1 == InitLock /\ [][NextSignup1]_vars

Next ==
    \/ NextAC \/ NextP0 \/ NextP1 \/ NextLock \/ NextLogin
    \/ NextOtp0 \/ NextReset0 \/ NextOtp1 \/ NextSessAC \/ NextSignup1 \/ NextSignupAC
    \/ NextProfile \/ NextInput1 \/ NextLife \/ NextCross \/ NextLogin1
    \/ NextRevoke
Spec == Init /\ [][Next]_vars

(* ------------------------------ claims --------------------------------- *)

\* C1: refresh rotation is single-use.  A refresh call presenting a token that
\* an earlier successful refresh has already rotated fails InvalidRefreshToken,
\* and a refresh call presenting an issued token that has been neither rotated
\* nor logged out returns a new pair.
C1_RotationSingleUse ==
    resp.op = "refresh" /\ resp.presented \in IssuedTokens =>
        /\ resp.replay => Kind(resp) = "InvalidRefreshToken"
        /\ resp.wasValid => resp.status = 200

\* C2: of two refresh calls under way at once with the same valid token, at
\* most one returns a pair, the other fails InvalidRefreshToken, and when both
\* are answered the account holds one new refresh token in place of the
\* presented one.
C2_ConcurrentRefresh ==
    resp.op = "refresh" /\ resp.wasValid /\ resp.paired # "" =>
        /\ {Kind(resp), resp.paired} = {"ok", "InvalidRefreshToken"}
        /\ resp.presented \notin AllPersisted
        /\ \E i \in issued : i.tok # resp.presented /\ i.tok \in PersistedRefreshTokens(i.uid)

\* C3: logout revokes.  A refresh token for which logout has answered ok is in
\* no account's refreshTokens, and every later refresh presenting it fails
\* InvalidRefreshToken.
C3_LogoutRevokes ==
    /\ \A t \in revoked : t \notin AllPersisted
    /\ resp.op = "refresh" /\ resp.afterLogout => Kind(resp) = "InvalidRefreshToken"

\* C4: logout is idempotent and total.  It answers ok for every presented
\* token - valid, logged out, rotated away, malformed or never issued - and it
\* changes no stored state when the token is in no account's refreshTokens.
C4_LogoutTotal ==
    resp.op = "logout" /\ resp.presented # NoToken =>
        /\ resp.status = 200
        /\ resp.presented \notin AllPersisted => ~resp.changed

\* C5: after five wrong passwords in a row on an account, and until 30 minutes
\* have passed since the fifth, a login on that account fails AccountLocked
\* and returns no token, whatever password it supplies.
C5_LoginLockout ==
    resp.op = "login" /\ resp.locked =>
        /\ Kind(resp) = "AccountLocked"
        /\ resp.refreshToken = NoToken /\ resp.accessToken = NoToken

\* C6: the lockout heals by itself.  Once the 30 minutes of a lock have passed
\* the account is not reported locked, and the first recordFailure after that
\* sets failedLoginCount to 1 and clears lockedUntil.
C6_LockHeals ==
    /\ \A id \in Ids : db[id].lockUntil # NullDate /\ db[id].lockUntil <= now => ~isLocked(db[id])
    /\ resp.op = "recordFailure" /\ resp.replay =>
          db[resp.uid].loginAttempts = 1 /\ db[resp.uid].lockUntil = NullDate

\* C7: a login that succeeds leaves the account with failedLoginCount = 0 and
\* lockedUntil absent.
C7_LoginResetsCounters ==
    resp.op = "login" /\ resp.status = 200 =>
        db[resp.uid].loginAttempts = 0 /\ db[resp.uid].lockUntil = NullDate

\* C8: when two login or verifyOtp calls of one account are under way at once
\* and both return a pair, both returned refresh tokens are in the account's
\* refreshTokens afterwards, and neither call fails internally.
C8_ConcurrentLogins ==
    resp.op \in {"login", "verifyOtp"} /\ resp.paired # "" =>
        /\ Kind(resp) # "InternalFailure"
        /\ resp.status = 200 /\ resp.paired = "ok" =>
              \A i \in issued : i.uid = resp.uid /\ Valid(i.tok) =>
                  i.tok \in PersistedRefreshTokens(resp.uid)

\* C9: sessions are independent.  Every pair returned by login, verifyOtp or
\* refresh carries a refresh token that was not returned before and differs
\* from the presented one, also when two pairs are issued at the same clock
\* reading.
C9_SessionsIndependent ==
    resp.op \in {"login", "verifyOtp", "refresh"} /\ resp.status = 200 =>
        resp.fresh /\ resp.refreshToken # resp.presented

\* C10: the refresh token that verifyOtp or login returns is at that moment in
\* the stored refreshTokens of the authenticated account and of no other, and
\* refresh accepts a token exactly when some account's stored refreshTokens
\* holds it.
C10_ReturnedTokenPersisted ==
    /\ resp.op \in {"login", "verifyOtp"} /\ resp.status = 200 =>
          \A id \in Ids : resp.refreshToken \in PersistedRefreshTokens(id) <=> id = resp.uid
    /\ resp.op = "refresh" /\ resp.presented # NoToken =>
          (resp.status = 200 <=> resp.member)

\* C11: an OTP is single-use.  When verifyOtp or resetPassword succeeds, both
\* OTP fields of the account are cleared; and a verifyOtp or resetPassword that
\* reads the account while no OTP is pending (the last one was consumed and none
\* has been issued since) fails, whatever code it presents.
C11_OtpSingleUse ==
    /\ resp.op \in {"verifyOtp", "resetPassword"} /\ resp.status = 200 =>
          db[resp.uid].otpHash = Null /\ db[resp.uid].otpExpires = NullDate
    /\ resp.op \in {"verifyOtp", "resetPassword"} /\ resp.uid # 0 /\ resp.chk.used =>
          Kind(resp) \in {"InvalidOrExpiredOtp", "WeakPassword"}

\* the code of the signup is presented again after it has been consumed
C11_Witness ==
    /\ resp.op \in {"verifyOtp", "resetPassword"}
    /\ resp.uid # 0 /\ resp.chk.used /\ resp.otp = "123456"
    /\ Kind(resp) = "InvalidOrExpiredOtp"

\* C12: one issued OTP is consumed at most once.  When a verifyOtp or
\* resetPassword succeeds while another verifyOtp or resetPassword of the same
\* account, presenting the same code, was answered during the call, that other
\* call did not succeed.
C12_OtpConsumedOnce ==
    /\ resp.op \in {"verifyOtp", "resetPassword"} /\ resp.status = 200
    /\ resp.pairedOp \in {"verifyOtp", "resetPassword"} /\ resp.pairedOtp = resp.otp
    => resp.paired # "ok"

\* C13: OTP expiry.  Every step that stores a new OTP stores otpExpires = now +
\* 10 minutes with it; and a verifyOtp or resetPassword that reads the account
\* when the clock is past otpExpires fails although the code matches, returns
\* no tokens and changes nothing in the store (the password included).
C13_OtpExpiry ==
    /\ resp.op \in {"signup", "requestOtp"} /\ resp.uid # 0 =>
          db[resp.uid].otpExpires = now + OTP_TTL
    /\ resp.op \in {"verifyOtp", "resetPassword"} /\ resp.uid # 0 /\ resp.chk.expired =>
          /\ Kind(resp) \in {"InvalidOrExpiredOtp", "WeakPassword"}
          /\ resp.accessToken = NoToken /\ resp.refreshToken = NoToken
          /\ ~resp.changed

\* the matching code is presented after its ten minutes
C13_Witness ==
    /\ resp.op \in {"verifyOtp", "resetPassword"} /\ resp.uid # 0
    /\ resp.chk.expired /\ resp.chk.matched
    /\ Kind(resp) = "InvalidOrExpiredOtp"

\* C14: a failed OTP verification leaves the OTP alone.  A verifyOtp or
\* resetPassword that presents a code other than the pending one fails, returns
\* no tokens and changes nothing in the store, so otpHash and otpExpires are
\* as they were and the pending code is still accepted afterwards.
C14_FailureKeepsOtp ==
    resp.op \in {"verifyOtp", "resetPassword"} /\ resp.uid # 0 /\ ~resp.chk.matched =>
        /\ Kind(resp) \in {"InvalidOrExpiredOtp", "WeakPassword"}
        /\ resp.accessToken = NoToken /\ resp.refreshToken = NoToken
        /\ ~resp.changed

\* a wrong code is presented while the code of the signup is pending and not
\* expired; it is still pending after the answer
C14_Witness ==
    /\ resp.op \in {"verifyOtp", "resetPassword"} /\ resp.uid # 0
    /\ ~resp.chk.matched /\ ~resp.chk.used /\ ~resp.chk.expired
    /\ Kind(resp) = "InvalidOrExpiredOtp"
    /\ db[resp.uid].otpHash = sha256("123456") /\ now <= db[resp.uid].otpExpires

\* C15: at most one OTP is outstanding per account.  When an issue (signup or
\* requestPasswordReset) has stored its OTP, the account holds the hash of the
\* issued code and an expiry of now + 10 minutes in place of what it held; and
\* verifyOtp or resetPassword succeeds only with the code the account held
\* when it was read, so a code of an earlier issue is rejected after a later
\* issue even within its own ten minutes.
C15_OneOtpOutstanding ==
    /\ resp.op \in {"signup", "requestOtp"} /\ resp.uid # 0 =>
          /\ db[resp.uid].otpHash = sha256(resp.otp)
          /\ db[resp.uid].otpExpires = now + OTP_TTL
    /\ resp.op \in {"verifyOtp", "resetPassword"} /\ resp.status = 200 => resp.chk.matched

\* the code of the signup ("123456") is presented within ten minutes of the
\* signup, after forgot-password has issued "654321", and is rejected
C15_Witness ==
    /\ resp.op \in {"verifyOtp", "resetPassword"} /\ resp.uid # 0
    /\ resp.otp = "123456" /\ ~resp.chk.used /\ ~resp.chk.matched
    /\ Kind(resp) = "InvalidOrExpiredOtp"
    /\ db[resp.uid].otpHash = sha256("654321")
    /\ now <= OTP_TTL

\* C16: resetPassword replaces the password.  When resetPassword succeeds the
\* account holds the hash of the new password, never the plaintext, and both
\* OTP fields are cleared.  The account signed up with "Abcdef1!" and resets to
\* "Str0ng!Pw": a login that reads the account after the reset (it loads the
\* hash of the new password) succeeds with the new password and fails
\* InvalidCredentials with the old one.
C16_ResetReplacesPassword ==
    /\ resp.op = "resetPassword" /\ resp.status = 200 =>
          /\ db[resp.uid].password = bcryptHash(resp.password)
          /\ db[resp.uid].password # resp.password
          /\ db[resp.uid].otpHash = Null /\ db[resp.uid].otpExpires = NullDate
    /\ resp.op = "login" /\ resp.uid # 0 /\ resp.stored = bcryptHash(PwStr0ng)
       => /\ resp.password = PwStr0ng => resp.status = 200 /\ resp.refreshToken # NoToken
          /\ resp.password = PwAbcdef1 => Kind(resp) = "InvalidCredentials"

\* after the reset a login with the old password is refused
C16_Witness ==
    /\ resp.op = "login" /\ resp.uid # 0 /\ resp.stored = bcryptHash(PwStr0ng)
    /\ resp.password = PwAbcdef1 /\ Kind(resp) = "InvalidCredentials"

\* after the reset a login with the new password succeeds
C16_WitnessNew ==
    /\ resp.op = "login" /\ resp.uid # 0 /\ resp.stored = bcryptHash(PwStr0ng)
    /\ resp.password = PwStr0ng /\ resp.status = 200

\* C17: resetPassword called with the correct, unexpired OTP and a new password
\* that fails the strength policy (the password rule of the account model)
\* fails WeakPassword and leaves the store unchanged.
C17_WeakResetKeepsOtp ==
    /\ resp.op = "resetPassword" /\ resp.uid # 0 /\ resp.password # <<>>
    /\ resp.chk.matched /\ ~resp.chk.expired
    /\ ~PASSWORD_REGEX(resp.password)
    => Kind(resp) = "WeakPassword" /\ ~resp.changed

\* the part of C17 that the handlers keep: a new password that fails the check
\* of the request is answered WeakPassword, and no resetPassword that did not
\* succeed changes the store
C17_RequestCheckKeepsOtp ==
    /\ resp.op = "resetPassword" /\ resp.password # <<>> /\ ~isStrongPassword(resp.password)
          => Kind(resp) = "WeakPassword"
    /\ resp.op = "resetPassword" /\ resp.status # 200 => ~resp.changed

\* C18: resetPassword leaves the refresh tokens alone.  The step that answers
\* a successful resetPassword rotates and logs out no token and changes no
\* account's stored refreshTokens, and a refresh that presents a token which is
\* valid (issued, not rotated, not logged out) is accepted, so a token valid
\* before the reset is accepted after it.
C18_ResetKeepsRefreshTokens ==
    /\ [][resp'.op = "resetPassword" /\ resp'.status = 200 =>
             /\ issued' = issued /\ rotated' = rotated /\ revoked' = revoked
             /\ Len(db') = Len(db)
             /\ \A id \in 1..Len(db) :
                   PersistedRefreshTokens(id)' = PersistedRefreshTokens(id)]_vars
    /\ [](resp.op = "refresh" /\ resp.wasValid => Kind(resp) = "ok")

\* a token issued under the old password is accepted after the reset
C18_Witness ==
    /\ resp.op = "refresh" /\ resp.wasValid /\ resp.status = 200
    /\ db[resp.uid].password = bcryptHash(PwStr0ng)
    /\ resp.presented.iat = 0 /\ now > 0

\* C19: login does not reveal which emails are registered.  The answer to a
\* login with a wrong password for an existing account and the answer to a
\* login for an email that has no account are InvalidCredentials and look the
\* same to the client: the same status, the same message, no tokens.
C19_LoginHidesAccounts ==
    resp.op = "login" /\ resp.cause \in {"unknown", "wrong"} =>
        /\ Kind(resp) = "InvalidCredentials"
        /\ Visible(resp) = Visible(P0_userNotFound)

\* a wrong password for an existing, unlocked account
C19_Witness ==
    /\ resp.op = "login" /\ resp.cause = "wrong" /\ resp.uid # 0 /\ ~resp.locked
    /\ resp.status = 401

\* an email that has no account, while another email has one
C19_WitnessUnknown ==
    /\ resp.op = "login" /\ resp.cause = "unknown" /\ Len(db) > 0

\* C20: the password policy is one rule.  For every password presented to
\* signup or resetPassword the check of the request and the validator of the
\* account model agree, so no call passes the first and is thrown out by the
\* second; the call is refused WeakPassword exactly when the password fails
\* the rule.
C20_OnePasswordPolicy ==
    resp.op \in {"signup", "resetPassword"} /\ resp.password # <<>> =>
        /\ isStrongPassword(resp.password) <=> PASSWORD_REGEX(resp.password)
        /\ resp.cause # "validator"
        /\ ~PASSWORD_REGEX(resp.password) => Kind(resp) = "WeakPassword"

\* "Abcdef1_" passes the check of the request and is thrown out by the
\* validator: signup answers 500
C20_SignupThrown ==
    resp.op = "signup" /\ resp.status = 500 /\ resp.cause = "validator"
       /\ isStrongPassword(resp.password)

\* the same at resetPassword
C20_ResetThrown ==
    resp.op = "resetPassword" /\ resp.status = 500 /\ resp.cause = "validator"
       /\ isStrongPassword(resp.password)

\* C21: email uniqueness is an invariant of the store.  No two accounts have
\* emails that are equal ignoring letter case, and a signup with all fields
\* and a strong password whose email collides (letter case ignored) with an
\* account that exists when the call begins fails DuplicateEmail and creates
\* nothing.
C21_EmailUnique ==
    /\ \A i, j \in 1..Len(db) :
          i # j => LowerCase(db[i].email) # LowerCase(db[j].email)
    /\ resp.op = "signup" /\ resp.collided /\ isStrongPassword(resp.password) =>
          Kind(resp) = "DuplicateEmail" /\ ~resp.changed

\* "Ada@x.com" is refused while ada@x.com or its own first signup exists
C21_Witness ==
    /\ resp.op = "signup" /\ resp.collided /\ Kind(resp) = "DuplicateEmail"
    /\ Len(db) = 1

\* C22: concurrent signups with the same email.  A signup with all fields and
\* a strong password that creates no account is answered DuplicateEmail,
\* whether it finds the other account when it reads or only when it saves.
C22_ConcurrentSignup ==
    resp.op = "signup" /\ isStrongPassword(resp.password) /\ ~resp.changed =>
        Kind(resp) = "DuplicateEmail"

\* C23: signup creates the account with its pending OTP in one step.  A
\* successful signup returns no token and leaves the account with a hashed
\* password, the hash of the issued OTP, otpExpires = now + 10 minutes,
\* loginAttempts = 0 and no refresh token; and while no OTP has been consumed
\* no account is in the store without its OTP.
C23_SignupComplete ==
    /\ resp.op = "signup" /\ resp.status = 201 =>
          /\ resp.uid \in 1..Len(db)
          /\ db[resp.uid].password # <<>> /\ db[resp.uid].password[1] = "bcrypt"
          /\ db[resp.uid].otpHash = sha256(resp.otp)
          /\ db[resp.uid].otpExpires = now + OTP_TTL
          /\ db[resp.uid].loginAttempts = 0
          /\ PersistedRefreshTokens(resp.uid) = {}
          /\ resp.accessToken = NoToken /\ resp.refreshToken = NoToken
    /\ \A id \in 1..Len(db) : db[id].otpHash # Null /\ db[id].otpExpires # NullDate

\* another request sees the account between the two saves: a login succeeds
\* while the account has no OTP
C23_SeenWithoutOtp ==
    /\ resp.op = "login" /\ resp.status = 200
    /\ db[resp.uid].otpHash = Null

\* C24: Notifier failure is non-fatal.  When the mail cannot be sent during
\* signup or requestPasswordReset, the call still answers with its success
\* result, and the OTP it issued is in the store.
C24_NotifierNonFatal ==
    resp.op \in {"signup", "requestOtp"} /\ resp.cause = "mail" =>
        /\ Kind(resp) = "ok"
        /\ db[resp.uid].otpHash = sha256(resp.otp)

\* the part of C24 that holds: the OTP issued by a call whose mail failed is
\* in the store when the call answers, provided no other call wrote the
\* account between the call's read and its save
C24_OtpStaysPersisted ==
    [][\A s \in Slots :
          /\ req[s].op \in {"signup", "requestOtp"} /\ req'[s].op = "idle"
          /\ resp'.op \in {"signup", "requestOtp"} /\ resp'.cause = "mail"
          /\ req[s].op = "requestOtp" => req[s].doc.f = db[req[s].doc.id]
          => /\ resp'.uid \in 1..Len(db')
             /\ db'[resp'.uid].otpHash = sha256(resp'.otp)
             /\ db'[resp'.uid].otpExpires = now + OTP_TTL]_vars

\* C25: the authenticated route admits a request only if its token has a valid
\* signature under the access-token secret, its expiry has not passed and its
\* account exists; every other request is answered 401 and the handler does
\* not run.  Neither req.user nor the body holds password, otpHash or
\* otpExpires.
C25_AuthenticateAdmits ==
    resp.op = "profile" =>
        /\ resp.status = 200 =>
              /\ resp.presented.typ = "jwt" /\ resp.presented.key = JWT_SECRET
              /\ now < resp.presented.exp
              /\ resp.presented.id \in 1..Len(db) /\ resp.uid = resp.presented.id
        /\ resp.status # 200 =>
              resp.status = 401 /\ resp.body = <<>> /\ resp.attached = {}
        /\ (resp.attached \cup DOMAIN resp.body) \cap {"password", "otpHash", "otpExpires"} = {}

\* an access token is refused once its expiry has passed
C25_Witness ==
    /\ resp.op = "profile" /\ resp.status = 401
    /\ resp.presented.typ = "jwt" /\ resp.presented.key = JWT_SECRET
    /\ now >= resp.presented.exp

\* an unexpired access token is admitted and the profile is returned
C25_Admitted ==
    /\ resp.op = "profile" /\ resp.status = 200 /\ resp.body.email = "ada@x.com"
    /\ "fullName" \in resp.attached

\* C26: input validation comes first.  A signup with a missing field, or with
\* a strong password and an email that does not have the syntax of an email,
\* fails ValidationError before the store has been asked anything.
C26_ValidationFirst ==
    /\ resp.op = "signup"
    /\ \/ resp.email = "" \/ resp.password = <<>>
       \/ isStrongPassword(resp.password) /\ ~EMAIL_REGEX(resp.email)
    => Kind(resp) = "ValidationError" /\ resp.reads = 0

\* the part of C26 that holds: a missing field is answered ValidationError
\* before the store is asked
C26_MissingFieldFirst ==
    resp.op = "signup" /\ (resp.email = "" \/ resp.password = <<>>) =>
        Kind(resp) = "ValidationError" /\ resp.reads = 0 /\ ~resp.changed

\* an email without @ goes through findOne and is thrown out by the validator
C26_InvalidEmailThrown ==
    /\ resp.op = "signup" /\ resp.email = "ada" /\ resp.status = 500
    /\ resp.cause = "validator" /\ resp.reads = 1

\* C27: failures are typed.  While the store answers and the mail is
\* delivered, every answer is the success of its operation or one of the
\* failure kinds listed for it (a missing field is a ValidationError); the
\* generic internal failure is not among them.
C27_TypedFailures ==
    resp.op # "none" /\ resp.cause # "mail" =>
        Kind(resp) \in
            CASE resp.op = "signup" ->
                    {"ok", "ValidationError", "WeakPassword", "DuplicateEmail"}
              [] resp.op = "verifyOtp" ->
                    {"ok", "ValidationError", "NotFound", "InvalidOrExpiredOtp"}
              [] resp.op = "login" ->
                    {"ok", "ValidationError", "InvalidCredentials", "AccountLocked"}
              [] resp.op = "requestOtp" ->
                    {"ok", "ValidationError", "NotFound"}
              [] resp.op = "resetPassword" ->
                    {"ok", "ValidationError", "NotFound", "WeakPassword", "InvalidOrExpiredOtp"}
              [] resp.op = "refresh" ->
                    {"ok", "ValidationError", "InvalidRefreshToken"}
              [] OTHER -> {"ok", "ValidationError"}

\* resetPassword with a correct OTP answers the generic failure for a
\* password that the request check lets through
C27_ResetInternalFailure ==
    /\ resp.op = "resetPassword" /\ Kind(resp) = "InternalFailure"
    /\ resp.chk.matched /\ ~resp.chk.expired

\* C28: recordFailure locks exactly at the threshold.  A call of
\* incrementLoginAttempts on an account without a lock, made on the document
\* as the store holds it, raises loginAttempts by one; it leaves lockUntil
\* absent while the new count is below 5, and when the new count reaches 5 it
\* sets lockUntil to the time of the call plus 30 minutes, from when on
\* isLocked is true.
C28_LocksAtThreshold ==
    [][\A s \in Slots :
          /\ req[s].op = "recordFailure" /\ req[s].pc = "loaded" /\ req'[s].op = "idle"
          /\ req[s].doc.f = db[req[s].doc.id]
          /\ db[req[s].doc.id].lockUntil = NullDate
          => LET id == req[s].doc.id
                 k == db[id].loginAttempts
             IN /\ db'[id].loginAttempts = k + 1
                /\ k + 1 < MAX_ATTEMPTS => db'[id].lockUntil = NullDate
                /\ k + 1 >= MAX_ATTEMPTS =>
                      /\ db'[id].lockUntil = now + LOCK_TIME
                      /\ db'[id].lockUntil > now]_vars

\* the fifth failure in a row has just locked the account
C28_Witness ==
    /\ resp.op = "recordFailure" /\ ~resp.locked
    /\ db[resp.uid].loginAttempts = MAX_ATTEMPTS
    /\ db[resp.uid].lockUntil = now + LOCK_TIME
    /\ isLocked(db[resp.uid])

\* C29: failed logins are counted under concurrency.  Every call of
\* incrementLoginAttempts on an account that is not locked, and that it did
\* not see locked, raises the stored loginAttempts by one, whatever other
\* calls ran since it loaded the document.
C29_NoLostIncrement ==
    [][\A s \in Slots :
          /\ req[s].op = "recordFailure" /\ req[s].pc = "loaded" /\ req'[s].op = "idle"
          /\ db[req[s].doc.id].lockUntil = NullDate
          /\ req[s].doc.f.lockUntil = NullDate
          => db'[req[s].doc.id].loginAttempts = db[req[s].doc.id].loginAttempts + 1]_vars

\* C30: a refresh token's validity ends only by rotation or logout of that
\* same token.  No step takes a token other than the presented one out of a
\* stored refreshTokens, a successful refresh leaves the number of stored
\* tokens unchanged, and a refresh presenting a token that was issued and has
\* been neither rotated nor logged out (no other refresh of it was answered
\* meanwhile) is accepted.
C30_ValidityEndsByOwnUse ==
    /\ [][(AllPersisted \ {resp'.presented}) \subseteq AllPersisted']_vars
    /\ [][resp'.op = "refresh" /\ resp'.status = 200 =>
             Cardinality(AllPersisted') = Cardinality(AllPersisted)]_vars
    /\ [](resp.op = "refresh" /\ resp.wasValid /\ resp.paired = "" => Kind(resp) = "ok")

\* the token that login returned is refused although nothing rotated it or
\* logged it out
C30_RefusedUnused ==
    /\ resp.op = "refresh" /\ resp.wasValid /\ resp.paired = ""
    /\ Kind(resp) \in {"InvalidRefreshToken", "InternalFailure"}
    /\ resp.presented \notin rotated \cup revoked

(* C31: an access token is rejected by the protected route at any time later
   than 15 minutes after it was issued, and a refresh token is rejected by
   refresh at any time later than 7 days after it was issued, also when it was
   never rotated or logged out.  Stated of the answers: an accepted token is
   no older than 15 minutes (access) or 7 days (refresh). *)
C31_LifetimesBounded ==
    /\ resp.op = "profile" /\ resp.status = 200 => now - resp.presented.iat <= ACCESS_TTL
    /\ resp.op = "refresh" /\ resp.status = 200 => now - resp.presented.iat <= REFRESH_TTL

(* C31 as amended: an accepted token is no older than the lifetime the
   deployment configures, which is 15 minutes (access) and 7 days (refresh)
   when JWT_EXPIRES_IN and JWT_REFRESH_EXPIRES_IN are not set. *)
C31_ConfiguredLifetimesBounded ==
    /\ resp.op = "profile" /\ resp.status = 200 => now - resp.presented.iat <= JWT_EXPIRES_IN
    /\ resp.op = "refresh" /\ resp.status = 200 =>
          now - resp.presented.iat <= JWT_REFRESH_EXPIRES_IN

\* a refresh token that was never rotated or logged out is refused because
\* more than its lifetime has passed since it was issued
C31_Witness ==
    /\ resp.op = "refresh" /\ resp.status = 401 /\ resp.wasValid
    /\ resp.presented.key = EnvRefreshSecret
    /\ now - resp.presented.iat > JWT_REFRESH_EXPIRES_IN

\* an access token of an existing account is refused by the protected route
\* because more than its configured lifetime of one hour has passed
C31_WitnessAccess ==
    /\ resp.op = "profile" /\ resp.status = 401
    /\ resp.presented.key = JWT_SECRET /\ findById(resp.presented.id) # 0
    /\ env.expiresIn # 0
    /\ now - resp.presented.iat > JWT_EXPIRES_IN

(* C32: in every reachable state of every account otpHash is present if and
   only if otpExpires is present: issuing an OTP sets both and a successful
   verifyOtp clears both in the same persisted update. *)
C32_OtpFieldsPaired ==
    \A i \in Ids : (db[i].otpHash = Null) <=> (db[i].otpExpires = NullDate)

\* an account is left with an expiry and no OTP hash
C32_ExpiryWithoutHash ==
    \E i \in Ids : db[i].otpHash = Null /\ db[i].otpExpires # NullDate

(* C33: the plaintext OTP is handed to the Notifier alone and the plaintext
   password to the hashing step alone: no account in the store holds a
   plaintext password or code, and no step writes a plaintext code to the
   log. *)
C33_PlaintextTransient ==
    /\ \A i \in Ids : /\ db[i].password[1] = "bcrypt"
                      /\ db[i].otpHash = Null \/ db[i].otpHash[1] = "sha256"
    /\ resp.logged = {}

\* the store holds hashes only, whatever the handlers log
C33_StoreHoldsHashes ==
    \A i \in Ids : /\ db[i].password[1] = "bcrypt"
                   /\ db[i].otpHash = Null \/ db[i].otpHash[1] = "sha256"

\* a signup is answered 201 after its code went to console.log
C33_OtpLogged ==
    resp.op = "signup" /\ resp.status = 201 /\ resp.otp \in resp.logged

(* C34: lock-state consistency.  In every reachable state every account has
   loginAttempts >= 0, has lockUntil absent if and only if loginAttempts < 5,
   and is reported locked by isLocked exactly when lockUntil is present and
   later than the current time. *)
C34_LockStateConsistent ==
    \A i \in Ids :
        /\ db[i].loginAttempts >= 0
        /\ (db[i].lockUntil = NullDate) <=> (db[i].loginAttempts < MAX_ATTEMPTS)
        /\ isLocked(db[i]) <=> (db[i].lockUntil # NullDate /\ db[i].lockUntil > now)

\* an account carries a lock next to fewer than five counted failures
C34_LockBelowThreshold ==
    \E i \in Ids : db[i].lockUntil # NullDate /\ db[i].loginAttempts < MAX_ATTEMPTS

\* the same consistency at the end of every call of incrementLoginAttempts that
\* no other call overtook: the document it loaded is the stored one, and was
\* consistent
C34_ConsistentWhenAlone ==
    [][\A s \in Slots :
          /\ req[s].op = "recordFailure" /\ req[s].pc = "loaded" /\ req'[s].op = "idle"
          /\ req[s].doc.f = db[req[s].doc.id]
          /\ (req[s].doc.f.lockUntil = NullDate) <=> (req[s].doc.f.loginAttempts < MAX_ATTEMPTS)
          => LET id == req[s].doc.id IN
             /\ db'[id].loginAttempts >= 0
             /\ (db'[id].lockUntil = NullDate) <=> (db'[id].loginAttempts < MAX_ATTEMPTS)]_vars

(* C35: a lock lasts exactly 30 minutes.  Once lockUntil has been set, no step
   changes it while it is still in the future; a call of
   incrementLoginAttempts on a locked account raises loginAttempts by one and
   leaves lockUntil as it is. *)
C35_LockUnchangedWhileLocked ==
    /\ [][\A i \in Ids : db[i].lockUntil # NullDate /\ db[i].lockUntil > now
             => db'[i].lockUntil = db[i].lockUntil]_vars
    /\ [][\A s \in Slots :
             /\ req[s].op = "recordFailure" /\ req[s].pc = "loaded" /\ req'[s].op = "idle"
             /\ isLocked(db[req[s].doc.id])
             => /\ db'[req[s].doc.id].loginAttempts = db[req[s].doc.id].loginAttempts + 1
                /\ db'[req[s].doc.id].lockUntil = db[req[s].doc.id].lockUntil]_vars

\* the frame half alone: no step changes a lockUntil that lies in the future
C35_LockFrame ==
    [][\A i \in Ids : db[i].lockUntil # NullDate /\ db[i].lockUntil > now
          => db'[i].lockUntil = db[i].lockUntil]_vars

\* a call on a locked account, whose document was loaded in that lock, has
\* raised the count past the threshold and left the lock where it was
C35_Witness ==
    /\ resp.op = "recordFailure" /\ resp.locked /\ ~resp.replay
    /\ db[resp.uid].loginAttempts > MAX_ATTEMPTS
    /\ isLocked(db[resp.uid])

\* the same of a call that no other call overtook: the document it loaded in
\* the lock is the stored one
C35_AloneKeepsLock ==
    [][\A s \in Slots :
          /\ req[s].op = "recordFailure" /\ req[s].pc = "loaded" /\ req'[s].op = "idle"
          /\ req[s].doc.f = db[req[s].doc.id]
          /\ isLocked(db[req[s].doc.id])
          => /\ db'[req[s].doc.id].loginAttempts = db[req[s].doc.id].loginAttempts + 1
             /\ db'[req[s].doc.id].lockUntil = db[req[s].doc.id].lockUntil]_vars

(* C36: a refresh token is never accepted as an access token.  Under every
   configuration of the signing secrets the protected route answers 401 to a
   request whose bearer token is a refresh token that login, verifyOtp or
   refresh returned. *)
C36_RefreshNotAccess ==
    resp.op = "profile" /\ resp.presented \in IssuedTokens => resp.status = 401

\* with two distinct secrets the route refuses every refresh token
C36_DistinctSecretsRefuse ==
    resp.op = "profile" /\ resp.presented \in IssuedTokens /\ ~env.sameSecret
        => resp.status = 401 /\ resp.msg = "Invalid or expired token."

\* the route admits a request that carries a refresh token
C36_RefreshAdmitted ==
    resp.op = "profile" /\ resp.presented \in IssuedTokens /\ resp.status = 200

\* part_001 with JWT_REFRESH_SECRET unset: login signs its refresh token with
\* JWT_SECRET and fails before it returns it
C36_FallbackLoginThrows ==
    resp.op = "login" /\ resp.status = 500 /\ resp.msg = "Server Error" /\ ~env.refreshSecret

(* C37: verifyOtp does not tell apart why an OTP was issued.  A verifyOtp that
   presents the pending, unexpired code of the account is answered with a
   token pair, whether signup issued the code ("123456") or
   requestPasswordReset did ("654321"); no password is asked for. *)
C37_ResetCodeSignsIn ==
    resp.op = "verifyOtp" /\ resp.uid # 0 /\ resp.chk.matched /\ ~resp.chk.expired
        => /\ resp.status = 200
           /\ resp.accessToken # NoToken /\ resp.refreshToken # NoToken
           /\ resp.password = <<>>

\* the code of requestPasswordReset was presented to verifyOtp and a token
\* pair came back
C37_Witness ==
    /\ resp.op = "verifyOtp" /\ resp.otp = "654321" /\ resp.chk.matched
    /\ resp.status = 200 /\ resp.accessToken.id = resp.uid /\ resp.refreshToken # NoToken

\* verify-otp of part_001 takes the code of forgot-password, clears it and
\* answers 500
C37_AcceptedWithoutPair ==
    /\ resp.op = "verifyOtp" /\ resp.otp = "654321" /\ resp.chk.matched /\ ~resp.chk.expired
    /\ resp.status = 500 /\ db[resp.uid].otpHash = Null

(* C38: login does not depend on the OTP state.  A login with the correct
   password of an account whose signup OTP is still pending returns a token
   pair, and no login, successful or failed, changes otpHash or otpExpires. *)
C38_LoginIgnoresOtp ==
    /\ [](resp.op = "login" /\ resp.uid # 0 /\ resp.stored = bcryptHash(resp.password)
             /\ db[resp.uid].otpHash = sha256("123456")
          => /\ resp.status = 200
             /\ resp.accessToken # NoToken /\ resp.refreshToken # NoToken)
    /\ [][resp'.op = "login" =>
             \A i \in Ids : /\ db'[i].otpHash = db[i].otpHash
                            /\ db'[i].otpExpires = db[i].otpExpires]_vars

\* a login has returned a pair while the code of the signup was still pending
C38_Witness ==
    /\ resp.op = "login" /\ resp.status = 200 /\ resp.refreshToken # NoToken
    /\ db[resp.uid].otpHash = sha256("123456") /\ now <= db[resp.uid].otpExpires

\* login of part_001 with the correct password is answered 500 while the code
\* of the signup is pending
C38_LoginThrows ==
    /\ resp.op = "login" /\ resp.status = 500 /\ resp.uid # 0
    /\ db[resp.uid].otpHash = sha256("123456")

(* C39: access tokens are not revocable.  The protected route admits every
   access token that was issued, whose embedded expiry has not passed and
   whose account exists, whatever logout, refresh rotation or resetPassword
   has happened since it was issued. *)
C39_AccessNotRevocable ==
    resp.op = "profile"
    /\ (\E i \in issued : resp.presented = AccessTokenOf(i))
    /\ now < resp.presented.exp
    /\ findById(resp.presented.id) # 0
        => resp.status = 200 /\ resp.uid = resp.presented.id

\* the route admits an access token after the refresh token returned with it
\* was rotated and logged out and the password of the account was reset
C39_Witness ==
    /\ resp.op = "profile" /\ resp.status = 200
    /\ \E i \in issued : /\ resp.presented = AccessTokenOf(i)
                         /\ i.tok \in rotated /\ i.tok \in revoked
    /\ db[resp.uid].password = bcryptHash(PwStr0ng)

====
